---- MODULE Spec2Model ----
(***************************************************************************)
(* Tow-truck dispatch bot: the webhook/worker bot (worker.py) with its     *)
(* API service (api.py), and the self-contained polling bot                *)
(* (bot_polling.py).  Handlers are modelled as tasks: the action that      *)
(* receives an event runs the handler up to its first suspension point,    *)
(* and one further action runs each segment between two awaits.            *)
(***************************************************************************)
EXTENDS Integers, Sequences, FiniteSets, Bags, TLC

\* ---------------------------------------------------------------- bounds
TicksPerSecond == 2      \* clock resolution: one tick is half a second
MaxTasks == 2            \* handler tasks in flight at once
MaxRequests == 2         \* rows in the requests table / notifications sent
MaxDrivers == 2          \* largest counter value an increment may produce
MaxPresses == 2          \* +/- button presses followed from press to write
MaxGeoLen == 5           \* characters in a geo text

\* ------------------------------------------------------- configuration
TARGET_USER_ID == 1
COOLDOWN_SECONDS == 300
Users == {1, 2}
ALLOWED_STATUSES == {"new", "in_work", "done", "cancel"}

CooldownTicks == COOLDOWN_SECONDS * TicksPerSecond
JumpTicks == (COOLDOWN_SECONDS - 1) * TicksPerSecond

Max(a, b) == IF a >= b THEN a ELSE b
Min(a, b) == IF a <= b THEN a ELSE b

VARIABLES
    shape,            \* which program runs: "worker" (with the API) or "polling"
    now,              \* wall clock, in ticks
    last_request_ts,  \* dict uid -> time of the last accepted submission
    greeted_users,    \* set of uids that were shown the welcome text
    MANAGER_AWAIT,    \* dict uid -> "setdrivers" (worker)
    drivers_on_line,  \* in-memory counter (polling)
    state_file,       \* content of STATE_FILE (polling)
    settings,         \* settings['drivers_on_line'] in the API database
    requests,         \* the requests table, in insertion order
    next_id,          \* the BIGSERIAL sequence of requests.id
    notifications,    \* messages delivered to the dispatcher chat
    tasks,            \* bag of suspended handler tasks
    ev,               \* what the last step did: handler, caller, outcome
    add_log           \* history: the counter at the start and the deltas of
                      \* the +/- button actions that wrote it since

vars == <<shape, now, last_request_ts, greeted_users, MANAGER_AWAIT,
          drivers_on_line, state_file, settings, requests, next_id,
          notifications, tasks, ev, add_log>>

\* ------------------------------------------------------------- helpers
is_dispatcher_user_id(user_id) == user_id = TARGET_USER_ID

is_dispatcher(uid) == is_dispatcher_user_id(uid)

polling_is_dispatcher(uid) == uid = TARGET_USER_ID

\* d[k] = v on a Python dict
DictSet(d, k, v) == [x \in DOMAIN d \cup {k} |-> IF x = k THEN v ELSE d[x]]

\* d.pop(k, None)
DictPop(d, k) == [x \in DOMAIN d \ {k} |-> d[x]]

EmptyDict == [x \in {} |-> 0]

NewTask(kind, uid, pc) ==
    [kind |-> kind, uid |-> uid, pc |-> pc, now |-> 0, req_id |-> 0,
     raw |-> "", cur |-> 0, delta |-> 0, n |-> 0]

\* ------------------------------------------------------ message text
\* A text is a sequence of characters.
Digits == {"0", "1", "2", "3", "4", "5", "6", "7", "8", "9"}
DigitVal(c) ==
    CASE c = "0" -> 0 [] c = "1" -> 1 [] c = "2" -> 2 [] c = "3" -> 3
      [] c = "4" -> 4 [] c = "5" -> 5 [] c = "6" -> 6 [] c = "7" -> 7
      [] c = "8" -> 8 [] c = "9" -> 9

RECURSIVE LStrip(_)
LStrip(s) == IF s # <<>> /\ Head(s) = " " THEN LStrip(Tail(s)) ELSE s
RECURSIVE RStrip(_)
RStrip(s) ==
    IF s # <<>> /\ s[Len(s)] = " " THEN RStrip(SubSeq(s, 1, Len(s) - 1)) ELSE s
\* str.strip()
Strip(s) == RStrip(LStrip(s))

AllDigits(s) == \A i \in DOMAIN s : s[i] \in Digits

RECURSIVE DigitsToInt(_)
DigitsToInt(s) ==
    IF s = <<>> THEN 0
    ELSE 10 * DigitsToInt(SubSeq(s, 1, Len(s) - 1)) + DigitVal(s[Len(s)])

\* int(s) of Python on a stripped text: an optional sign and digits
IntOk(s) ==
    LET t == Strip(s)
        d == IF t # <<>> /\ Head(t) \in {"-", "+"} THEN Tail(t) ELSE t
    IN d # <<>> /\ AllDigits(d)
IntVal(s) ==
    LET t == Strip(s)
    IN IF Head(t) = "-" THEN 0 - DigitsToInt(Tail(t))
       ELSE IF Head(t) = "+" THEN DigitsToInt(Tail(t))
       ELSE DigitsToInt(t)

\* sample message texts and command arguments
Texts == { <<"2">>, <<" ", "1", " ">>, <<"0", "0", "0", "0", "0", "1">>,
           <<"0", "0", "0", "0", "0", "0", "1">>, <<"-", "1">>, <<"1", "a">> }

\* ------------------------------------------------- API credentials
\* X-Tg-Init-Data: who computed the presented hash ("bot": the HMAC under the
\* bot token, "forged": any other value, "none": no hash field), the age of
\* auth_date in seconds (-1: no auth_date field) and the id of the embedded
\* user (0: no user field).  X-Admin-Token: "good" equals API_ADMIN_TOKEN.
NoInit == [present |-> FALSE, hash |-> "none", age |-> 0, user |-> 0]
InitData(hash, age, user) ==
    [present |-> TRUE, hash |-> hash, age |-> age, user |-> user]
NoCred == [init |-> NoInit, token |-> "none"]

\* None of Python, among field values that are texts
None == <<"None">>

\* the fields of a submitted JSON object the program reads (None: the key
\* is missing or null)
NoData ==
    [phone |-> None, phoneFormatted |-> None, carBrand |-> None,
     address |-> None, geo |-> None]

Event(op, uid, out) ==
    [op |-> op, src |-> "bot", uid |-> uid, out |-> out, req_id |-> 0,
     status |-> "", was |-> "", n |-> 0, cur |-> 0, delta |-> 0,
     text |-> <<>>, items |-> <<>>, cred |-> NoCred, data |-> NoData]

ApiEvent(op, cred, out) ==
    [Event(op, cred.init.user, out) EXCEPT !.src = "api", !.cred = cred]

Spawn(t) == tasks' = tasks (+) SetToBag({t})
Finish(t) == tasks' = tasks (-) SetToBag({t})
Resume(t, t2) == tasks' = (tasks (-) SetToBag({t})) (+) SetToBag({t2})
InFlight == BagCardinality(tasks)
Suspended(kind, pc) == {t \in BagToSet(tasks) : t.kind = kind /\ t.pc = pc}
CountKind(kind) ==
    LET S == {t \in BagToSet(tasks) : t.kind = kind}
        RECURSIVE Sum(_)
        Sum(T) == IF T = {} THEN 0
                  ELSE LET x == CHOOSE y \in T : TRUE
                       IN CopiesIn(x, tasks) + Sum(T \ {x})
    IN Sum(S)

\* ------------------------------------------------------- rate limiter
\* mutant: the window test off by one (<= instead of <)
InCooldown_inclusive(uid, t) ==
    /\ uid \in DOMAIN last_request_ts
    /\ (t - last_request_ts[uid]) <= CooldownTicks

\* worker.py:602-604 / bot_polling.py:296-298
InCooldown(uid, t) ==
    /\ uid \in DOMAIN last_request_ts
    /\ (t - last_request_ts[uid]) < CooldownTicks

\* int(COOLDOWN_SECONDS - (now - last)): truncation of a positive float
Remain(uid, t) == (CooldownTicks - (t - last_request_ts[uid])) \div TicksPerSecond

\* raw web_app_data payloads: a JSON object, text that is not JSON, and JSON
\* that is not an object (json.loads succeeds, the result has no .get)
Raws == {"object", "text", "array"}

\* json.loads(raw) with the except branch: {"raw": raw} for text that is not JSON
LoadsIsDict(raw) == raw \in {"object", "text"}


\* ------------------------------------------------------------- clock
\* The instants at which events are observed: a start, COOLDOWN - 1 seconds
\* later, one tick after that, and COOLDOWN seconds after the start.
Instants == {0, JumpTicks, JumpTicks + 1, CooldownTicks}

Advance ==
    /\ \E t \in Instants : t > now /\ now' = t
    /\ ev' = Event("clock", 0, "")
    /\ UNCHANGED <<add_log, shape, last_request_ts, greeted_users, MANAGER_AWAIT,
                   drivers_on_line, state_file, settings, requests, next_id,
                   notifications, tasks>>

\* ------------------------------------------- worker.py: order intake
NewRow(id, u, raw, t) ==
    [id |-> id, created_at |-> t, tg_user_id |-> u, status |-> "new",
     raw |-> raw]

\* mutant: the rejection branch replies but does not return
webapp_data_handler_no_return(uid, raw) ==
    /\ shape = "worker"
    /\ IF InCooldown(uid, now) /\ ~LoadsIsDict(raw)
       THEN /\ ev' = [Event("webapp_data_handler", uid, "cooldown")
                        EXCEPT !.n = Remain(uid, now)]
            /\ UNCHANGED tasks
       ELSE IF ~LoadsIsDict(raw)
       THEN /\ ev' = Event("webapp_data_handler", uid, "crash")
            /\ UNCHANGED tasks
       ELSE /\ Len(requests) + CountKind("webapp") < MaxRequests
            /\ Spawn([NewTask("webapp", uid, "db_create_request")
                        EXCEPT !.now = now, !.raw = raw])
            /\ ev' = IF InCooldown(uid, now)
                     THEN [Event("webapp_data_handler", uid, "cooldown")
                             EXCEPT !.n = Remain(uid, now)]
                     ELSE Event("webapp_data_handler", uid, "suspended")
    /\ UNCHANGED <<add_log, shape, now, last_request_ts, greeted_users, MANAGER_AWAIT,
                   drivers_on_line, state_file, settings, requests, next_id,
                   notifications>>

\* worker.py:597-618: the rate-limit check, the payload parse and the call
\* of db_create_request up to its first await
webapp_data_handler(uid, raw) ==
    /\ shape = "worker"
    /\ IF InCooldown(uid, now)
       THEN /\ ev' = [Event("webapp_data_handler", uid, "cooldown")
                        EXCEPT !.n = Remain(uid, now)]
            /\ UNCHANGED tasks
       ELSE IF ~LoadsIsDict(raw)
       THEN \* payload.get on a list or a number: AttributeError
            /\ ev' = Event("webapp_data_handler", uid, "crash")
            /\ UNCHANGED tasks
       ELSE /\ Len(requests) + CountKind("webapp") < MaxRequests
            /\ Spawn([NewTask("webapp", uid, "db_create_request")
                        EXCEPT !.now = now, !.raw = raw])
            /\ ev' = Event("webapp_data_handler", uid, "suspended")
    /\ UNCHANGED <<add_log, shape, now, last_request_ts, greeted_users, MANAGER_AWAIT,
                   drivers_on_line, state_file, settings, requests, next_id,
                   notifications>>

\* mutant: the id sequence is read but not advanced
db_create_request_no_advance(t, ok) ==
    /\ t \in Suspended("webapp", "db_create_request")
    /\ IF ok
       THEN /\ requests' = Append(requests, NewRow(next_id, t.uid, t.raw, now))
            /\ next_id' = next_id
            /\ Resume(t, [t EXCEPT !.pc = "send_message", !.req_id = next_id])
            /\ ev' = [Event("db_create_request", t.uid, "created")
                        EXCEPT !.req_id = next_id]
       ELSE /\ Finish(t)
            /\ ev' = Event("db_create_request", t.uid, "store_failed")
            /\ UNCHANGED <<requests, next_id>>
    /\ UNCHANGED <<add_log, shape, now, last_request_ts, greeted_users, MANAGER_AWAIT,
                   drivers_on_line, state_file, settings, notifications>>

\* mutant: the handler swallows the failure of the store and goes on
db_create_request_goes_on(t, ok) ==
    /\ t \in Suspended("webapp", "db_create_request")
    /\ IF ok
       THEN /\ requests' = Append(requests, NewRow(next_id, t.uid, t.raw, now))
            /\ next_id' = next_id + 1
            /\ Resume(t, [t EXCEPT !.pc = "send_message", !.req_id = next_id])
            /\ ev' = [Event("db_create_request", t.uid, "created")
                        EXCEPT !.req_id = next_id]
       ELSE /\ Resume(t, [t EXCEPT !.pc = "send_message"])
            /\ ev' = Event("db_create_request", t.uid, "store_failed")
            /\ UNCHANGED <<requests, next_id>>
    /\ UNCHANGED <<add_log, shape, now, last_request_ts, greeted_users, MANAGER_AWAIT,
                   drivers_on_line, state_file, settings, notifications>>

\* worker.py:154-177: the INSERT ... RETURNING id, or the store failing
db_create_request(t, ok) ==
    /\ t \in Suspended("webapp", "db_create_request")
    /\ IF ok
       THEN /\ requests' = Append(requests, NewRow(next_id, t.uid, t.raw, now))
            /\ next_id' = next_id + 1
            /\ Resume(t, [t EXCEPT !.pc = "send_message", !.req_id = next_id])
            /\ ev' = [Event("db_create_request", t.uid, "created")
                        EXCEPT !.req_id = next_id]
       ELSE /\ Finish(t)
            /\ ev' = Event("db_create_request", t.uid, "store_failed")
            /\ UNCHANGED <<requests, next_id>>
    /\ UNCHANGED <<add_log, shape, now, last_request_ts, greeted_users, MANAGER_AWAIT,
                   drivers_on_line, state_file, settings, notifications>>

\* mutant: the timestamp is recorded before the outcome of the send is known
webapp_send_message_marks_first(t, ok) ==
    /\ t \in Suspended("webapp", "send_message")
    /\ last_request_ts' = DictSet(last_request_ts, t.uid, t.now)
    /\ IF ok
       THEN /\ notifications' = Append(notifications,
                   [req_id |-> t.req_id, uid |-> t.uid, at |-> t.now])
            /\ Resume(t, [t EXCEPT !.pc = "commit"])
            /\ ev' = [Event("send_message", t.uid, "delivered")
                        EXCEPT !.req_id = t.req_id]
       ELSE /\ Finish(t)
            /\ ev' = [Event("send_message", t.uid, "send_failed")
                        EXCEPT !.req_id = t.req_id]
            /\ UNCHANGED notifications
    /\ UNCHANGED <<add_log, shape, now, greeted_users, MANAGER_AWAIT,
                   drivers_on_line, state_file, settings, requests, next_id>>

\* mutant: a failed notification is swallowed and the handler goes on to the
\* acknowledgment
webapp_send_message_goes_on(t, ok) ==
    /\ t \in Suspended("webapp", "send_message")
    /\ IF ok
       THEN /\ notifications' = Append(notifications,
                   [req_id |-> t.req_id, uid |-> t.uid, at |-> t.now])
            /\ ev' = [Event("send_message", t.uid, "delivered")
                        EXCEPT !.req_id = t.req_id]
       ELSE /\ ev' = [Event("send_message", t.uid, "send_failed")
                        EXCEPT !.req_id = t.req_id]
            /\ UNCHANGED notifications
    /\ Resume(t, [t EXCEPT !.pc = "commit"])
    /\ UNCHANGED <<add_log, shape, now, last_request_ts, greeted_users, MANAGER_AWAIT,
                   drivers_on_line, state_file, settings, requests, next_id>>

\* mutant: the notification names the newest row of the table, not the row
\* this handler created
webapp_send_message_newest_row(t, ok) ==
    /\ t \in Suspended("webapp", "send_message")
    /\ IF ok
       THEN /\ notifications' = Append(notifications,
                   [req_id |-> next_id - 1, uid |-> t.uid, at |-> t.now])
            /\ Resume(t, [t EXCEPT !.pc = "commit"])
            /\ ev' = [Event("send_message", t.uid, "delivered")
                        EXCEPT !.req_id = next_id - 1]
       ELSE /\ Finish(t)
            /\ ev' = [Event("send_message", t.uid, "send_failed")
                        EXCEPT !.req_id = t.req_id]
            /\ UNCHANGED notifications
    /\ UNCHANGED <<add_log, shape, now, last_request_ts, greeted_users, MANAGER_AWAIT,
                   drivers_on_line, state_file, settings, requests, next_id>>

\* worker.py:646: bot.send_message(TARGET_USER_ID, ...) delivered or raising
webapp_send_message(t, ok) ==
    /\ t \in Suspended("webapp", "send_message")
    /\ IF ok
       THEN /\ notifications' = Append(notifications,
                   [req_id |-> t.req_id, uid |-> t.uid, at |-> t.now])
            /\ Resume(t, [t EXCEPT !.pc = "commit"])
            /\ ev' = [Event("send_message", t.uid, "delivered")
                        EXCEPT !.req_id = t.req_id]
       ELSE /\ Finish(t)
            /\ ev' = [Event("send_message", t.uid, "send_failed")
                        EXCEPT !.req_id = t.req_id]
            /\ UNCHANGED notifications
    /\ UNCHANGED <<add_log, shape, now, last_request_ts, greeted_users, MANAGER_AWAIT,
                   drivers_on_line, state_file, settings, requests, next_id>>

\* worker.py:648-652: the timestamp commit and the acknowledgment
webapp_commit(t) ==
    /\ t \in Suspended("webapp", "commit")
    /\ last_request_ts' = DictSet(last_request_ts, t.uid, t.now)
    /\ Finish(t)
    /\ ev' = [Event("webapp_commit", t.uid, "ack") EXCEPT !.req_id = t.req_id]
    /\ UNCHANGED <<add_log, shape, now, greeted_users, MANAGER_AWAIT, drivers_on_line,
                   state_file, settings, requests, next_id, notifications>>

\* --------------------------------------- bot_polling.py: order intake
\* bot_polling.py:291-342: check, parse, format, call of send_message
polling_webapp_data_handler(uid, raw) ==
    /\ shape = "polling"
    /\ IF InCooldown(uid, now)
       THEN /\ ev' = [Event("webapp_data_handler", uid, "cooldown")
                        EXCEPT !.n = Remain(uid, now)]
            /\ UNCHANGED tasks
       ELSE IF ~LoadsIsDict(raw)
       THEN /\ ev' = Event("webapp_data_handler", uid, "crash")
            /\ UNCHANGED tasks
       ELSE /\ Len(notifications) + CountKind("polling_webapp") < MaxRequests
            /\ Spawn([NewTask("polling_webapp", uid, "send_message")
                        EXCEPT !.now = now, !.raw = raw])
            /\ ev' = Event("webapp_data_handler", uid, "suspended")
    /\ UNCHANGED <<add_log, shape, now, last_request_ts, greeted_users, MANAGER_AWAIT,
                   drivers_on_line, state_file, settings, requests, next_id,
                   notifications>>

\* bot_polling.py:342
polling_send_message(t, ok) ==
    /\ t \in Suspended("polling_webapp", "send_message")
    /\ IF ok
       THEN /\ notifications' = Append(notifications,
                   [req_id |-> 0, uid |-> t.uid, at |-> t.now])
            /\ Resume(t, [t EXCEPT !.pc = "commit"])
            /\ ev' = Event("send_message", t.uid, "delivered")
       ELSE /\ Finish(t)
            /\ ev' = Event("send_message", t.uid, "send_failed")
            /\ UNCHANGED notifications
    /\ UNCHANGED <<add_log, shape, now, last_request_ts, greeted_users, MANAGER_AWAIT,
                   drivers_on_line, state_file, settings, requests, next_id>>

\* bot_polling.py:344-345
polling_webapp_commit(t) ==
    /\ t \in Suspended("polling_webapp", "commit")
    /\ last_request_ts' = DictSet(last_request_ts, t.uid, t.now)
    /\ Finish(t)
    /\ ev' = Event("webapp_commit", t.uid, "ack")
    /\ UNCHANGED <<add_log, shape, now, greeted_users, MANAGER_AWAIT, drivers_on_line,
                   state_file, settings, requests, next_id, notifications>>

\* ------------------------------------------- api.py: authorization
INIT_DATA_MAX_AGE == 86400

\* mutant: the issuance time is not compared with the clock
tg_webapp_check_init_data_no_expiry(init) ==
    IF init.hash = "none" THEN "401"
    ELSE IF init.hash # "bot" THEN "401"
    ELSE IF init.user = 0 THEN "401"
    ELSE "ok"

\* api.py:40-70: "ok" when the user object is returned, else the HTTP status;
\* init.age is time.time() - auth_date
tg_webapp_check_init_data(init) ==
    IF init.hash = "none" THEN "401"
    ELSE IF init.hash # "bot" THEN "401"
    ELSE IF init.age > INIT_DATA_MAX_AGE THEN "401"
    ELSE IF init.user = 0 THEN "401"
    ELSE "ok"

\* mutant: the gate admits every caller
require_admin_open(cred) == "ok"

\* api.py:73-90
require_admin(cred) ==
    IF cred.init.present
    THEN IF tg_webapp_check_init_data(cred.init) # "ok"
         THEN tg_webapp_check_init_data(cred.init)
         ELSE IF cred.init.user # TARGET_USER_ID THEN "403" ELSE "ok"
    ELSE IF cred.token = "good" THEN "ok"
    ELSE "401"

Creds ==
    { NoCred,
      [init |-> NoInit, token |-> "good"],
      [init |-> NoInit, token |-> "bad"],
      [init |-> InitData("bot", 0, TARGET_USER_ID), token |-> "none"],
      [init |-> InitData("bot", 0, 2), token |-> "none"],
      [init |-> InitData("forged", 0, TARGET_USER_ID), token |-> "none"],
      [init |-> InitData("bot", INIT_DATA_MAX_AGE + 1, TARGET_USER_ID),
       token |-> "none"],
      [init |-> InitData("forged", 0, TARGET_USER_ID), token |-> "good"] }

\* ------------------------------------------- api.py: driver counter
DriverInputs == (0 - 1) .. MaxDrivers

PanelFrame ==
    UNCHANGED <<add_log, shape, now, last_request_ts, greeted_users, requests, next_id,
                notifications>>

\* api.py:188-195
get_drivers ==
    /\ shape = "worker"
    /\ ev' = [ApiEvent("get_drivers", NoCred, "ok") EXCEPT !.n = settings]
    /\ UNCHANGED <<MANAGER_AWAIT, drivers_on_line, state_file, settings, tasks>>
    /\ PanelFrame

\* api.py:198-204
admin_me(cred) ==
    /\ shape = "worker"
    /\ ev' = ApiEvent("admin_me", cred, require_admin(cred))
    /\ UNCHANGED <<MANAGER_AWAIT, drivers_on_line, state_file, settings, tasks>>
    /\ PanelFrame

\* mutant: the negative value is stored as it is
set_drivers_no_clamp(cred, n) ==
    /\ shape = "worker"
    /\ IF require_admin(cred) # "ok"
       THEN /\ ev' = [ApiEvent("set_drivers", cred, require_admin(cred))
                        EXCEPT !.n = n]
            /\ UNCHANGED settings
       ELSE /\ settings' = n
            /\ ev' = [ApiEvent("set_drivers", cred, "ok")
                        EXCEPT !.n = n, !.cur = n]
    /\ UNCHANGED <<MANAGER_AWAIT, drivers_on_line, state_file, tasks>>
    /\ PanelFrame

\* api.py:207-218
set_drivers(cred, n) ==
    /\ shape = "worker"
    /\ IF require_admin(cred) # "ok"
       THEN /\ ev' = [ApiEvent("set_drivers", cred, require_admin(cred))
                        EXCEPT !.n = n]
            /\ UNCHANGED settings
       ELSE /\ settings' = (IF n < 0 THEN 0 ELSE n)
            \* ev.cur: the drivers_on_line value of the response
            /\ ev' = [ApiEvent("set_drivers", cred, "ok")
                        EXCEPT !.n = n, !.cur = (IF n < 0 THEN 0 ELSE n)]
    /\ UNCHANGED <<MANAGER_AWAIT, drivers_on_line, state_file, tasks>>
    /\ PanelFrame

\* POST /api/bot/drivers, the endpoint worker.py:234 calls with X-Admin-Token:
\* the value stored and echoed for a request carrying the configured token
bot_set_drivers(n) == IF n < 0 THEN 0 ELSE n

\* --------------------------------------- worker.py: dispatcher panel
\* worker.py:412-420 (api_get_drivers answering or raising)
panel_cmd(uid, ok) ==
    /\ shape = "worker"
    /\ ev' = IF ~is_dispatcher(uid) THEN Event("panel_cmd", uid, "ignored")
             ELSE IF ok THEN [Event("panel_cmd", uid, "panel") EXCEPT !.n = settings]
             ELSE Event("panel_cmd", uid, "panel_unknown")
    /\ UNCHANGED <<MANAGER_AWAIT, drivers_on_line, state_file, settings, tasks>>
    /\ PanelFrame

\* worker.py:488-500
cb_panel_home(uid, ok) ==
    /\ shape = "worker"
    /\ ev' = IF ~is_dispatcher_user_id(uid) THEN Event("cb_panel_home", uid, "denied")
             ELSE IF ok THEN [Event("cb_panel_home", uid, "panel") EXCEPT !.n = settings]
             ELSE Event("cb_panel_home", uid, "panel_unknown")
    /\ UNCHANGED <<MANAGER_AWAIT, drivers_on_line, state_file, settings, tasks>>
    /\ PanelFrame

\* worker.py:520-533
cb_panel_drivers(uid, ok) ==
    /\ shape = "worker"
    /\ ev' = IF ~is_dispatcher_user_id(uid) THEN Event("cb_panel_drivers", uid, "denied")
             ELSE IF ok THEN [Event("cb_panel_drivers", uid, "drivers") EXCEPT !.n = settings]
             ELSE Event("cb_panel_drivers", uid, "drivers_unknown")
    /\ UNCHANGED <<MANAGER_AWAIT, drivers_on_line, state_file, settings, tasks>>
    /\ PanelFrame

\* worker.py:536-549: the check, the parse of delta, the call of api_get_drivers
cb_panel_drivers_add(uid, delta) ==
    /\ shape = "worker"
    /\ IF ~is_dispatcher_user_id(uid)
       THEN /\ ev' = [Event("cb_panel_drivers_add", uid, "denied")
                        EXCEPT !.delta = delta]
            /\ UNCHANGED tasks
       ELSE /\ InFlight < MaxTasks
            /\ Spawn([NewTask("drivers_add", uid, "api_get_drivers")
                        EXCEPT !.delta = delta])
            /\ ev' = [Event("cb_panel_drivers_add", uid, "suspended")
                        EXCEPT !.delta = delta]
    /\ UNCHANGED <<MANAGER_AWAIT, drivers_on_line, state_file, settings>>
    /\ PanelFrame

\* worker.py:549 with 225-229: GET /api/drivers answers, or the call raises
drivers_add_get(t, ok) ==
    /\ t \in Suspended("drivers_add", "api_get_drivers")
    /\ IF ok
       THEN /\ Resume(t, [t EXCEPT !.pc = "api_set_drivers", !.cur = settings])
            /\ ev' = [Event("api_get_drivers", t.uid, "ok")
                        EXCEPT !.n = settings, !.delta = t.delta]
       ELSE /\ Finish(t)
            /\ ev' = [Event("api_get_drivers", t.uid, "error")
                        EXCEPT !.delta = t.delta]
    /\ UNCHANGED <<MANAGER_AWAIT, drivers_on_line, state_file, settings>>
    /\ PanelFrame

\* mutant: the addition is made on the stored value at the time of the write
drivers_add_set_atomic(t, ok) ==
    /\ t \in Suspended("drivers_add", "api_set_drivers")
    /\ IF ok
       THEN /\ Max(0, settings + t.delta) <= MaxDrivers
            /\ settings' = bot_set_drivers(Max(0, settings + t.delta))
            /\ ev' = [Event("api_set_drivers", t.uid, "done")
                        EXCEPT !.n = bot_set_drivers(Max(0, settings + t.delta)),
                               !.cur = t.cur, !.delta = t.delta]
       ELSE /\ UNCHANGED settings
            /\ ev' = [Event("api_set_drivers", t.uid, "error")
                        EXCEPT !.delta = t.delta]
    /\ Finish(t)
    /\ UNCHANGED <<MANAGER_AWAIT, drivers_on_line, state_file>>
    /\ UNCHANGED <<shape, now, last_request_ts, greeted_users, requests,
                   next_id, notifications>>

\* worker.py:550-557 with 232-247: the POST of max(0, cur + delta)
drivers_add_set(t, ok) ==
    /\ t \in Suspended("drivers_add", "api_set_drivers")
    /\ IF ok
       THEN /\ Max(0, t.cur + t.delta) <= MaxDrivers
            /\ settings' = bot_set_drivers(Max(0, t.cur + t.delta))
            /\ ev' = [Event("api_set_drivers", t.uid, "done")
                        EXCEPT !.n = bot_set_drivers(Max(0, t.cur + t.delta)),
                               !.cur = t.cur, !.delta = t.delta]
       ELSE /\ UNCHANGED settings
            /\ ev' = [Event("api_set_drivers", t.uid, "error")
                        EXCEPT !.delta = t.delta]
    /\ Finish(t)
    /\ UNCHANGED <<MANAGER_AWAIT, drivers_on_line, state_file>>
    /\ UNCHANGED <<shape, now, last_request_ts, greeted_users, requests,
                   next_id, notifications>>

\* mutant: the button is served to every user
cb_panel_drivers_set_open(uid) ==
    /\ shape = "worker"
    /\ MANAGER_AWAIT' = DictSet(MANAGER_AWAIT, uid, "setdrivers")
    /\ ev' = Event("cb_panel_drivers_set", uid, "prompt")
    /\ UNCHANGED <<drivers_on_line, state_file, settings, tasks>>
    /\ PanelFrame

\* worker.py:560-568
cb_panel_drivers_set(uid) ==
    /\ shape = "worker"
    /\ IF ~is_dispatcher_user_id(uid)
       THEN /\ ev' = Event("cb_panel_drivers_set", uid, "denied")
            /\ UNCHANGED MANAGER_AWAIT
       ELSE /\ MANAGER_AWAIT' = DictSet(MANAGER_AWAIT, uid, "setdrivers")
            /\ ev' = Event("cb_panel_drivers_set", uid, "prompt")
    /\ UNCHANGED <<drivers_on_line, state_file, settings, tasks>>
    /\ PanelFrame

MAX_DIGITS == 6

\* mutant: the pattern without its upper bound, \d+
FullmatchDigits_unbounded(txt) ==
    /\ Len(txt) >= 1
    /\ AllDigits(txt)

\* worker.py:581: re.fullmatch(r"\d{1,6}", txt)
FullmatchDigits(txt) ==
    /\ Len(txt) >= 1
    /\ Len(txt) <= MAX_DIGITS
    /\ AllDigits(txt)

\* worker.py:571-587: the checks and the call of api_set_drivers
manager_number_input(uid, text) ==
    /\ shape = "worker"
    /\ IF ~is_dispatcher(uid)
       THEN /\ ev' = [Event("manager_number_input", uid, "ignored")
                        EXCEPT !.text = text]
            /\ UNCHANGED tasks
       ELSE IF ~(uid \in DOMAIN MANAGER_AWAIT /\ MANAGER_AWAIT[uid] = "setdrivers")
       THEN /\ ev' = [Event("manager_number_input", uid, "ignored")
                        EXCEPT !.text = text]
            /\ UNCHANGED tasks
       ELSE IF ~FullmatchDigits(Strip(text))
       THEN /\ ev' = [Event("manager_number_input", uid, "need_integer")
                        EXCEPT !.text = text]
            /\ UNCHANGED tasks
       ELSE /\ InFlight < MaxTasks
            /\ Spawn([NewTask("manager_number_input", uid, "api_set_drivers")
                        EXCEPT !.n = DigitsToInt(Strip(text))])
            /\ ev' = [Event("manager_number_input", uid, "suspended")
                        EXCEPT !.text = text, !.n = DigitsToInt(Strip(text))]
    /\ UNCHANGED <<MANAGER_AWAIT, drivers_on_line, state_file, settings>>
    /\ PanelFrame

\* worker.py:586-592: api_set_drivers returns and the mode is popped, or it
\* raises and the error text is sent
manager_number_set(t, ok) ==
    /\ t \in Suspended("manager_number_input", "api_set_drivers")
    /\ IF ok
       THEN /\ settings' = bot_set_drivers(t.n)
            /\ MANAGER_AWAIT' = DictPop(MANAGER_AWAIT, t.uid)
            /\ ev' = [Event("manager_number_set", t.uid, "done")
                        EXCEPT !.n = bot_set_drivers(t.n)]
       ELSE /\ UNCHANGED <<settings, MANAGER_AWAIT>>
            /\ ev' = [Event("manager_number_set", t.uid, "error")
                        EXCEPT !.n = t.n]
    /\ Finish(t)
    /\ UNCHANGED <<drivers_on_line, state_file>>
    /\ PanelFrame

\* ----------------------------------- bot_polling.py: driver counter
FileContents ==
    { [ok |-> FALSE, v |-> 0], [ok |-> TRUE, v |-> 0 - 1],
      [ok |-> TRUE, v |-> 0], [ok |-> TRUE, v |-> 1] }

\* bot_polling.py:34-43: the value load_state leaves in drivers_on_line
load_state(f) == IF ~f.ok THEN 0 ELSE IF f.v < 0 THEN 0 ELSE f.v

\* bot_polling.py:46-49: the file content save_state writes
save_state(n) == [ok |-> TRUE, v |-> n]

PollingFrame ==
    UNCHANGED <<add_log, shape, now, last_request_ts, greeted_users, MANAGER_AWAIT,
                settings, requests, next_id, notifications, tasks>>

\* bot_polling.py:359-375: a (re)start of the process
polling_main ==
    /\ shape = "polling"
    /\ drivers_on_line' = load_state(state_file)
    /\ last_request_ts' = EmptyDict
    /\ greeted_users' = {}
    /\ tasks' = EmptyBag
    /\ ev' = Event("main", 0, "started")
    /\ UNCHANGED <<add_log, shape, now, MANAGER_AWAIT, state_file, settings, requests,
                   next_id, notifications>>

\* bot_polling.py:132-133
api_drivers ==
    /\ shape = "polling"
    /\ ev' = [ApiEvent("api_drivers", NoCred, "ok") EXCEPT !.n = drivers_on_line]
    /\ UNCHANGED <<drivers_on_line, state_file>>
    /\ PollingFrame

\* bot_polling.py:156-170
help_cmd(uid) ==
    /\ shape = "polling"
    /\ ev' = Event("help_cmd", uid,
                   IF polling_is_dispatcher(uid) THEN "help" ELSE "denied")
    /\ UNCHANGED <<drivers_on_line, state_file>>
    /\ PollingFrame

\* bot_polling.py:173-178
drivers_cmd(uid) ==
    /\ shape = "polling"
    /\ ev' = IF polling_is_dispatcher(uid)
             THEN [Event("drivers_cmd", uid, "drivers") EXCEPT !.n = drivers_on_line]
             ELSE Event("drivers_cmd", uid, "denied")
    /\ UNCHANGED <<drivers_on_line, state_file>>
    /\ PollingFrame

\* mutant: a negative argument is floored at 0 and stored
setdrivers_cmd_clamps(uid, arg) ==
    /\ shape = "polling"
    /\ IF ~polling_is_dispatcher(uid)
       THEN /\ ev' = [Event("setdrivers_cmd", uid, "denied") EXCEPT !.text = arg]
            /\ UNCHANGED <<drivers_on_line, state_file>>
       ELSE IF Strip(arg) = <<>>
       THEN /\ ev' = [Event("setdrivers_cmd", uid, "usage") EXCEPT !.text = arg]
            /\ UNCHANGED <<drivers_on_line, state_file>>
       ELSE IF ~IntOk(arg)
       THEN /\ ev' = [Event("setdrivers_cmd", uid, "need_nonneg") EXCEPT !.text = arg]
            /\ UNCHANGED <<drivers_on_line, state_file>>
       ELSE /\ drivers_on_line' = Max(0, IntVal(arg))
            /\ state_file' = save_state(Max(0, IntVal(arg)))
            /\ ev' = [Event("setdrivers_cmd", uid, "done")
                        EXCEPT !.text = arg, !.n = Max(0, IntVal(arg))]
    /\ PollingFrame

\* bot_polling.py:181-203
setdrivers_cmd(uid, arg) ==
    /\ shape = "polling"
    /\ IF ~polling_is_dispatcher(uid)
       THEN /\ ev' = [Event("setdrivers_cmd", uid, "denied") EXCEPT !.text = arg]
            /\ UNCHANGED <<drivers_on_line, state_file>>
       ELSE IF Strip(arg) = <<>>
       THEN /\ ev' = [Event("setdrivers_cmd", uid, "usage") EXCEPT !.text = arg]
            /\ UNCHANGED <<drivers_on_line, state_file>>
       ELSE IF ~IntOk(arg) \/ IntVal(arg) < 0
       THEN /\ ev' = [Event("setdrivers_cmd", uid, "need_nonneg") EXCEPT !.text = arg]
            /\ UNCHANGED <<drivers_on_line, state_file>>
       ELSE /\ drivers_on_line' = IntVal(arg)
            /\ state_file' = save_state(IntVal(arg))
            /\ ev' = [Event("setdrivers_cmd", uid, "done")
                        EXCEPT !.text = arg, !.n = IntVal(arg)]
    /\ PollingFrame

\* mutant: the file is written before the counter is updated
adddrivers_cmd_saves_first(uid, arg) ==
    /\ shape = "polling"
    /\ IF ~polling_is_dispatcher(uid)
       THEN /\ ev' = [Event("adddrivers_cmd", uid, "denied") EXCEPT !.text = arg]
            /\ UNCHANGED <<drivers_on_line, state_file>>
       ELSE IF Strip(arg) = <<>>
       THEN /\ ev' = [Event("adddrivers_cmd", uid, "usage") EXCEPT !.text = arg]
            /\ UNCHANGED <<drivers_on_line, state_file>>
       ELSE IF ~IntOk(arg) \/ IntVal(arg) < 0
       THEN /\ ev' = [Event("adddrivers_cmd", uid, "need_nonneg") EXCEPT !.text = arg]
            /\ UNCHANGED <<drivers_on_line, state_file>>
       ELSE /\ drivers_on_line + IntVal(arg) <= MaxDrivers
            /\ drivers_on_line' = drivers_on_line + IntVal(arg)
            /\ state_file' = save_state(drivers_on_line)
            /\ ev' = [Event("adddrivers_cmd", uid, "done")
                        EXCEPT !.text = arg, !.delta = IntVal(arg),
                               !.n = drivers_on_line + IntVal(arg)]
    /\ PollingFrame

\* bot_polling.py:206-228
adddrivers_cmd(uid, arg) ==
    /\ shape = "polling"
    /\ IF ~polling_is_dispatcher(uid)
       THEN /\ ev' = [Event("adddrivers_cmd", uid, "denied") EXCEPT !.text = arg]
            /\ UNCHANGED <<drivers_on_line, state_file>>
       ELSE IF Strip(arg) = <<>>
       THEN /\ ev' = [Event("adddrivers_cmd", uid, "usage") EXCEPT !.text = arg]
            /\ UNCHANGED <<drivers_on_line, state_file>>
       ELSE IF ~IntOk(arg) \/ IntVal(arg) < 0
       THEN /\ ev' = [Event("adddrivers_cmd", uid, "need_nonneg") EXCEPT !.text = arg]
            /\ UNCHANGED <<drivers_on_line, state_file>>
       ELSE /\ drivers_on_line + IntVal(arg) <= MaxDrivers
            /\ drivers_on_line' = drivers_on_line + IntVal(arg)
            /\ state_file' = save_state(drivers_on_line + IntVal(arg))
            /\ ev' = [Event("adddrivers_cmd", uid, "done")
                        EXCEPT !.text = arg, !.delta = IntVal(arg),
                               !.n = drivers_on_line + IntVal(arg)]
    /\ PollingFrame

\* bot_polling.py:231-253
deldrivers_cmd(uid, arg) ==
    /\ shape = "polling"
    /\ IF ~polling_is_dispatcher(uid)
       THEN /\ ev' = [Event("deldrivers_cmd", uid, "denied") EXCEPT !.text = arg]
            /\ UNCHANGED <<drivers_on_line, state_file>>
       ELSE IF Strip(arg) = <<>>
       THEN /\ ev' = [Event("deldrivers_cmd", uid, "usage") EXCEPT !.text = arg]
            /\ UNCHANGED <<drivers_on_line, state_file>>
       ELSE IF ~IntOk(arg) \/ IntVal(arg) < 0
       THEN /\ ev' = [Event("deldrivers_cmd", uid, "need_nonneg") EXCEPT !.text = arg]
            /\ UNCHANGED <<drivers_on_line, state_file>>
       ELSE /\ drivers_on_line' = Max(0, drivers_on_line - IntVal(arg))
            /\ state_file' = save_state(Max(0, drivers_on_line - IntVal(arg)))
            /\ ev' = [Event("deldrivers_cmd", uid, "done")
                        EXCEPT !.text = arg, !.delta = IntVal(arg),
                               !.cur = drivers_on_line,
                               !.n = Max(0, drivers_on_line - IntVal(arg))]
    /\ PollingFrame

\* bot_polling.py:353-356: any other text that starts with "/"
block_commands_for_non_dispatcher(uid) ==
    /\ shape = "polling"
    /\ ev' = Event("block_commands_for_non_dispatcher", uid,
                   IF polling_is_dispatcher(uid) THEN "ignored" ELSE "denied")
    /\ UNCHANGED <<drivers_on_line, state_file>>
    /\ PollingFrame

\* ------------------------------------------------ the requests table
RowIds == {requests[i].id : i \in DOMAIN requests}

\* SELECT * FROM requests WHERE id = $1 (worker.py:180-183, api.py:259-260)
db_get_request(req_id) ==
    {requests[i] : i \in {j \in DOMAIN requests : requests[j].id = req_id}}

\* mutant: the UPDATE without its WHERE clause
db_set_status_every_row(req_id, status) ==
    [i \in DOMAIN requests |->
        IF req_id \in RowIds
        THEN [requests[i] EXCEPT !.status = status]
        ELSE requests[i]]

\* UPDATE requests SET status = $2 WHERE id = $1 (worker.py:205-208): the
\* table after the statement; the statement reports a row count other than 0
\* exactly when req_id is in RowIds
db_set_status(req_id, status) ==
    [i \in DOMAIN requests |->
        IF requests[i].id = req_id
        THEN [requests[i] EXCEPT !.status = status]
        ELSE requests[i]]

\* the status a status update finds in the row it addresses ("" when there
\* is no such row)
StatusOf(req_id) ==
    IF req_id \in RowIds
    THEN (CHOOSE r \in db_get_request(req_id) : TRUE).status
    ELSE ""

StoreFrame ==
    UNCHANGED <<add_log, shape, now, last_request_ts, greeted_users, MANAGER_AWAIT,
                drivers_on_line, state_file, settings, next_id, notifications,
                tasks>>

\* id arguments of commands, and the status words callers send
IdArgs == { <<"1">>, <<"2">>, <<"9">>, <<"x">> }
StatusInputs == {"done", "cancel", "bogus"}
SetstatusArgs ==
    {<<>>, << <<"1">> >>, << <<"9">>, "done" >>, << <<"x">>, "done" >>}
       \cup {<<i, st>> : i \in {<<"1">>, <<"2">>}, st \in StatusInputs}
ApiIds == {1, 9}

\* worker.py:441-460
request_cmd(uid, arg) ==
    /\ shape = "worker"
    /\ ev' = IF ~is_dispatcher(uid) THEN Event("request_cmd", uid, "ignored")
             ELSE IF Strip(arg) = <<>> THEN Event("request_cmd", uid, "usage")
             ELSE IF ~IntOk(arg) THEN Event("request_cmd", uid, "bad_id")
             ELSE IF db_get_request(IntVal(arg)) = {}
             THEN [Event("request_cmd", uid, "not_found")
                     EXCEPT !.req_id = IntVal(arg)]
             ELSE [Event("request_cmd", uid, "detail")
                     EXCEPT !.req_id = IntVal(arg),
                            !.status = (CHOOSE r \in db_get_request(IntVal(arg)) :
                                           TRUE).status]
    /\ UNCHANGED requests
    /\ StoreFrame

\* mutant: the status word is written without the membership test
setstatus_cmd_unchecked(uid, args) ==
    /\ shape = "worker"
    /\ IF ~is_dispatcher(uid)
       THEN /\ ev' = Event("setstatus_cmd", uid, "ignored")
            /\ UNCHANGED requests
       ELSE IF Len(args) # 2
       THEN /\ ev' = Event("setstatus_cmd", uid, "usage")
            /\ UNCHANGED requests
       ELSE IF ~IntOk(args[1])
       THEN /\ ev' = [Event("setstatus_cmd", uid, "bad_id")
                        EXCEPT !.status = args[2]]
            /\ UNCHANGED requests
       ELSE /\ requests' = db_set_status(IntVal(args[1]), args[2])
            /\ ev' = [Event("setstatus_cmd", uid,
                            IF IntVal(args[1]) \in RowIds
                            THEN "done" ELSE "not_found")
                        EXCEPT !.req_id = IntVal(args[1]), !.status = args[2],
                               !.was = StatusOf(IntVal(args[1]))]
    /\ StoreFrame

\* mutant: the UPDATE counts only rows whose status differs
setstatus_cmd_changed_rows(uid, args) ==
    /\ shape = "worker"
    /\ IF ~is_dispatcher(uid)
       THEN /\ ev' = Event("setstatus_cmd", uid, "ignored")
            /\ UNCHANGED requests
       ELSE IF Len(args) # 2
       THEN /\ ev' = Event("setstatus_cmd", uid, "usage")
            /\ UNCHANGED requests
       ELSE IF ~IntOk(args[1])
       THEN /\ ev' = [Event("setstatus_cmd", uid, "bad_id")
                        EXCEPT !.status = args[2]]
            /\ UNCHANGED requests
       ELSE IF args[2] \notin ALLOWED_STATUSES
       THEN /\ ev' = [Event("setstatus_cmd", uid, "bad_status")
                        EXCEPT !.req_id = IntVal(args[1]), !.status = args[2]]
            /\ UNCHANGED requests
       ELSE /\ requests' = db_set_status(IntVal(args[1]), args[2])
            /\ ev' = [Event("setstatus_cmd", uid,
                            IF /\ IntVal(args[1]) \in RowIds
                               /\ StatusOf(IntVal(args[1])) # args[2]
                            THEN "done" ELSE "not_found")
                        EXCEPT !.req_id = IntVal(args[1]), !.status = args[2],
                               !.was = StatusOf(IntVal(args[1]))]
    /\ StoreFrame

\* worker.py:463-485
setstatus_cmd(uid, args) ==
    /\ shape = "worker"
    /\ IF ~is_dispatcher(uid)
       THEN /\ ev' = Event("setstatus_cmd", uid, "ignored")
            /\ UNCHANGED requests
       ELSE IF Len(args) # 2
       THEN /\ ev' = Event("setstatus_cmd", uid, "usage")
            /\ UNCHANGED requests
       ELSE IF ~IntOk(args[1])
       THEN /\ ev' = [Event("setstatus_cmd", uid, "bad_id")
                        EXCEPT !.status = args[2]]
            /\ UNCHANGED requests
       ELSE IF args[2] \notin ALLOWED_STATUSES
       THEN /\ ev' = [Event("setstatus_cmd", uid, "bad_status")
                        EXCEPT !.req_id = IntVal(args[1]), !.status = args[2]]
            /\ UNCHANGED requests
       ELSE /\ requests' = db_set_status(IntVal(args[1]), args[2])
            /\ ev' = [Event("setstatus_cmd", uid,
                            IF IntVal(args[1]) \in RowIds
                            THEN "done" ELSE "not_found")
                        EXCEPT !.req_id = IntVal(args[1]), !.status = args[2],
                               !.was = StatusOf(IntVal(args[1]))]
    /\ StoreFrame

\* callback data of the buttons that build_requests_list_kb (worker.py:319-323)
\* and build_request_details_kb (worker.py:348-364) produce
CallbackDatas ==
    {[kind |-> "req", req_id |-> 1, status |-> "", limit |-> 10]}
    \cup {[kind |-> "st", req_id |-> 1, status |-> st, limit |-> 10] :
             st \in ALLOWED_STATUSES}
    \cup {[kind |-> "back", req_id |-> 0, status |-> "", limit |-> 10]}

\* worker.py:488-568: the callback_query filters registered on dp are
\* "panel:home", "panel:req:", "panel:drivers", "panel:drivers_add:" and
\* "panel:drivers_set"; data "req:...", "st:..." and "back:..." match none of
\* them and the update is dropped
callback_query_unhandled(uid, data) ==
    /\ shape = "worker"
    /\ ev' = [Event("callback_query", uid, "unhandled")
                EXCEPT !.text = <<data.kind>>, !.req_id = data.req_id,
                       !.status = data.status, !.n = data.limit]
    /\ UNCHANGED requests
    /\ StoreFrame

\* api.py:252-263
admin_get_request(cred, req_id) ==
    /\ shape = "worker"
    /\ ev' = [ApiEvent("admin_get_request", cred,
                       IF require_admin(cred) # "ok" THEN require_admin(cred)
                       ELSE IF db_get_request(req_id) = {} THEN "404"
                       ELSE "ok")
                EXCEPT !.req_id = req_id]
    /\ UNCHANGED requests
    /\ StoreFrame

\* request bodies of the status endpoint: the status field as a sequence of
\* pieces, a piece " " being one blank
ApiStatusInputs ==
    {<<st>> : st \in StatusInputs} \cup {<<>>, <<" ", "done", " ">>}

\* mutant: the row count of the UPDATE is not looked at
admin_set_request_status_no_404(cred, req_id, payload) ==
    LET status == Strip(payload)
        word == IF Len(status) = 1 THEN status[1] ELSE ""
    IN
    /\ shape = "worker"
    /\ IF require_admin(cred) # "ok"
       THEN /\ ev' = [ApiEvent("admin_set_request_status", cred,
                               require_admin(cred))
                        EXCEPT !.req_id = req_id, !.status = word,
                               !.text = payload]
            /\ UNCHANGED requests
       ELSE IF status \notin {<<"new">>, <<"in_work">>, <<"done">>, <<"cancel">>}
       THEN /\ ev' = [ApiEvent("admin_set_request_status", cred, "400")
                        EXCEPT !.req_id = req_id, !.status = word,
                               !.text = payload]
            /\ UNCHANGED requests
       ELSE /\ requests' = db_set_status(req_id, word)
            /\ ev' = [ApiEvent("admin_set_request_status", cred,
                               "ok")
                        EXCEPT !.req_id = req_id, !.status = word,
                               !.text = payload, !.was = StatusOf(req_id)]
    /\ StoreFrame

\* mutant: the status word is validated before the caller is
admin_set_request_status_validates_first(cred, req_id, payload) ==
    LET status == Strip(payload)
        word == IF Len(status) = 1 THEN status[1] ELSE ""
    IN
    /\ shape = "worker"
    /\ IF status \notin {<<"new">>, <<"in_work">>, <<"done">>, <<"cancel">>}
       THEN /\ ev' = [ApiEvent("admin_set_request_status", cred, "400")
                        EXCEPT !.req_id = req_id, !.status = word,
                               !.text = payload]
            /\ UNCHANGED requests
       ELSE IF require_admin(cred) # "ok"
       THEN /\ ev' = [ApiEvent("admin_set_request_status", cred,
                               require_admin(cred))
                        EXCEPT !.req_id = req_id, !.status = word,
                               !.text = payload]
            /\ UNCHANGED requests
       ELSE /\ requests' = db_set_status(req_id, word)
            /\ ev' = [ApiEvent("admin_set_request_status", cred,
                               IF req_id \in RowIds THEN "ok" ELSE "404")
                        EXCEPT !.req_id = req_id, !.status = word,
                               !.text = payload, !.was = StatusOf(req_id)]
    /\ StoreFrame

\* api.py:266-284
admin_set_request_status(cred, req_id, payload) ==
    LET status == Strip(payload)
        word == IF Len(status) = 1 THEN status[1] ELSE ""
    IN
    /\ shape = "worker"
    /\ IF require_admin(cred) # "ok"
       THEN /\ ev' = [ApiEvent("admin_set_request_status", cred,
                               require_admin(cred))
                        EXCEPT !.req_id = req_id, !.status = word,
                               !.text = payload]
            /\ UNCHANGED requests
       ELSE IF status \notin {<<"new">>, <<"in_work">>, <<"done">>, <<"cancel">>}
       THEN /\ ev' = [ApiEvent("admin_set_request_status", cred, "400")
                        EXCEPT !.req_id = req_id, !.status = word,
                               !.text = payload]
            /\ UNCHANGED requests
       ELSE /\ requests' = db_set_status(req_id, word)
            /\ ev' = [ApiEvent("admin_set_request_status", cred,
                               IF req_id \in RowIds THEN "ok" ELSE "404")
                        EXCEPT !.req_id = req_id, !.status = word,
                               !.text = payload, !.was = StatusOf(req_id)]
    /\ StoreFrame

\* ------------------------------------------- worker.py: rendered views
\* the em-dash placeholder, one character
Dash == <<"EM_DASH">>

\* a or b of Python on values that are None or texts
Or(a, b) == IF a # None /\ a # <<>> THEN a ELSE b

\* worker.py:88-90
clean(s) ==
    LET t == Strip(IF s = None THEN <<>> ELSE s)
    IN IF t # <<>> THEN t ELSE Dash

\* str.replace(" ", "")
RemoveSpaces(s) == SelectSeq(s, LAMBDA c : c # " ")

\* the position of the first "," of t
FirstComma(t) == CHOOSE i \in DOMAIN t : t[i] = "," /\ \A j \in 1..(i - 1) : t[j] # ","

\* float(s) succeeds: an optional sign, then digits with at most one "."
\* and at least one digit (the exponent, inf, nan and "_" forms of the
\* syntax need characters outside GeoAlphabet)
FloatOk(s) ==
    LET b == IF s # <<>> /\ Head(s) \in {"+", "-"} THEN Tail(s) ELSE s
    IN /\ \A i \in DOMAIN b : b[i] \in Digits \cup {"."}
       /\ Cardinality({i \in DOMAIN b : b[i] = "."}) <= 1
       /\ \E i \in DOMAIN b : b[i] \in Digits

RECURSIVE Normalize(_)
Normalize(v) ==
    IF v.scale > 0 /\ v.num % 10 = 0
    THEN Normalize([v EXCEPT !.num = @ \div 10, !.scale = @ - 1])
    ELSE v

\* float(s): the value as sign, decimal digits and number of fraction digits
FloatVal(s) ==
    LET neg == s # <<>> /\ Head(s) = "-"
        b == IF s # <<>> /\ Head(s) \in {"+", "-"} THEN Tail(s) ELSE s
        dot == IF \E i \in DOMAIN b : b[i] = "."
               THEN CHOOSE i \in DOMAIN b : b[i] = "." ELSE Len(b) + 1
        d == SelectSeq(b, LAMBDA c : c # ".")
    IN Normalize([neg |-> neg, num |-> DigitsToInt(d),
                  scale |-> Max(0, Len(b) - dot)])

RECURSIVE Pow10(_)
Pow10(k) == IF k = 0 THEN 1 ELSE 10 * Pow10(k - 1)

DigitChar(d) == CHOOSE c \in Digits : DigitVal(c) = d

\* str(n) for n >= 0
RECURSIVE IntStr(_)
IntStr(n) ==
    IF n < 10 THEN <<DigitChar(n)>>
    ELSE Append(IntStr(n \div 10), DigitChar(n % 10))

\* the k low decimal digits of n, zero-padded
RECURSIVE FracStr(_, _)
FracStr(n, k) ==
    IF k = 0 THEN <<>> ELSE Append(FracStr(n \div 10, k - 1), DigitChar(n % 10))

\* repr of a float, as the f-string writes it (positional notation: the
\* magnitudes a geo text of MaxGeoLen characters can name)
FloatRepr(v) ==
    (IF v.neg THEN <<"-">> ELSE <<>>)
    \o IntStr(v.num \div Pow10(v.scale)) \o <<".">>
    \o (IF v.scale = 0 THEN <<"0">> ELSE FracStr(v.num % Pow10(v.scale), v.scale))

\* the link text: "pt=" stands for the part of the URL before the
\* coordinates; the part after them is dropped
MapsLink(lon, lat) == <<"pt=">> \o FloatRepr(lon) \o <<",">> \o FloatRepr(lat)

\* mutant: the coordinates in the order of the input
yandex_maps_link_from_geo_lat_first(geo_text) ==
    IF geo_text = None \/ geo_text = <<>> THEN None
    ELSE LET t == RemoveSpaces(geo_text)
         IN IF ~(\E i \in DOMAIN t : t[i] = ",") THEN None
            ELSE LET k == FirstComma(t)
                     lat_s == SubSeq(t, 1, k - 1)
                     lon_s == SubSeq(t, k + 1, Len(t))
                 IN IF ~(FloatOk(lat_s) /\ FloatOk(lon_s)) THEN None
                    ELSE MapsLink(FloatVal(lat_s), FloatVal(lon_s))

\* worker.py:93-105
yandex_maps_link_from_geo(geo_text) ==
    IF geo_text = None \/ geo_text = <<>> THEN None
    ELSE LET t == RemoveSpaces(geo_text)
         IN IF ~(\E i \in DOMAIN t : t[i] = ",") THEN None
            ELSE LET k == FirstComma(t)
                     lat_s == SubSeq(t, 1, k - 1)
                     lon_s == SubSeq(t, k + 1, Len(t))
                 IN IF ~(FloatOk(lat_s) /\ FloatOk(lon_s)) THEN None
                    ELSE MapsLink(FloatVal(lon_s), FloatVal(lat_s))

Line(label, value) == [label |-> label, value |-> value]

\* "if maps: lines.append(...)"
WithMaps(lines, maps) ==
    IF maps # None /\ maps # <<>> THEN Append(lines, Line("maps", maps)) ELSE lines

\* worker.py:620-644: the lines of the notification that show payload fields
notification_lines(data) ==
    WithMaps(<< Line("phone", clean(Or(data.phoneFormatted, data.phone))),
                Line("car_brand", clean(data.carBrand)),
                Line("address", clean(data.address)),
                Line("geo", clean(data.geo)) >>,
             yandex_maps_link_from_geo(data.geo))

\* worker.py:154-177: the columns of the inserted row that hold payload fields
InsertedColumns(data) ==
    [phone |-> data.phone, phone_formatted |-> data.phoneFormatted,
     car_brand |-> data.carBrand, address |-> data.address, geo |-> data.geo,
     yandex_link |-> yandex_maps_link_from_geo(data.geo)]

\* worker.py:296-316: the lines of one block that show payload fields
build_requests_list_text(r) ==
    WithMaps(<< Line("phone", Or(r.phone_formatted, Dash)),
                Line("car_brand", Or(r.car_brand, Dash)),
                Line("address", Or(r.address, Dash)) >>,
             Or(r.yandex_link, yandex_maps_link_from_geo(r.geo)))

\* worker.py:326-345
format_request_details(r) ==
    WithMaps(<< Line("phone", Or(Or(r.phone_formatted, r.phone), Dash)),
                Line("car_brand", Or(r.car_brand, Dash)),
                Line("address", Or(r.address, Dash)),
                Line("geo", Or(r.geo, Dash)) >>,
             Or(r.yandex_link, yandex_maps_link_from_geo(r.geo)))

RenderFrame ==
    UNCHANGED <<add_log, shape, now, last_request_ts, greeted_users,
                MANAGER_AWAIT, drivers_on_line, state_file, settings, requests,
                next_id, notifications, tasks>>

\* the dispatcher notification of a submission with the fields `data`
show_notification(data) ==
    /\ shape = "worker"
    /\ ev' = [Event("notification", 0, "shown")
                EXCEPT !.data = data, !.items = notification_lines(data)]
    /\ RenderFrame

\* the list block of the row stored for `data`
show_list(data) ==
    /\ shape = "worker"
    /\ ev' = [Event("list", 0, "shown")
                EXCEPT !.data = data,
                       !.items = build_requests_list_text(InsertedColumns(data))]
    /\ RenderFrame

\* the detail view of the row stored for `data`
show_details(data) ==
    /\ shape = "worker"
    /\ ev' = [Event("details", 0, "shown")
                EXCEPT !.data = data,
                       !.items = format_request_details(InsertedColumns(data))]
    /\ RenderFrame

\* ------------------------------------------------------------ /start
\* (both main functions refuse to run without WEBAPP_URL and the API base
\* URL, so the "not configured" replies of the handlers are not reachable)
StartFrame ==
    UNCHANGED <<add_log, shape, now, last_request_ts, MANAGER_AWAIT, drivers_on_line,
                state_file, settings, requests, next_id, notifications>>

\* mutant: the welcome text is sent without looking at greeted_users
start_always_welcomes(uid) ==
    /\ shape = "worker"
    /\ InFlight < MaxTasks
    /\ IF is_dispatcher(uid)
       THEN /\ Spawn(NewTask("start", uid, "panel_get"))
            /\ ev' = Event("start", uid, "suspended")
            /\ UNCHANGED greeted_users
       ELSE /\ greeted_users' = greeted_users \cup {uid}
            /\ Spawn(NewTask("start", uid, "welcome"))
            /\ ev' = Event("start", uid, "welcome")
    /\ StartFrame

\* worker.py:376-394: up to the first await: api_get_drivers for the
\* dispatcher, the welcome text for a user not yet greeted, api_get_drivers
\* for a greeted one
start(uid) ==
    /\ shape = "worker"
    /\ InFlight < MaxTasks
    /\ IF is_dispatcher(uid)
       THEN /\ Spawn(NewTask("start", uid, "panel_get"))
            /\ ev' = Event("start", uid, "suspended")
            /\ UNCHANGED greeted_users
       ELSE IF uid \notin greeted_users
       THEN /\ greeted_users' = greeted_users \cup {uid}
            /\ Spawn(NewTask("start", uid, "welcome"))
            /\ ev' = Event("start", uid, "welcome")
       ELSE /\ Spawn(NewTask("start", uid, "api_get_drivers"))
            /\ ev' = Event("start", uid, "suspended")
            /\ UNCHANGED greeted_users
    /\ StartFrame

\* worker.py:394-397: the welcome was sent, api_get_drivers is called
start_welcome_sent(t) ==
    /\ t \in Suspended("start", "welcome")
    /\ Resume(t, [t EXCEPT !.pc = "api_get_drivers"])
    /\ ev' = Event("start_welcome_sent", t.uid, "suspended")
    /\ UNCHANGED greeted_users
    /\ StartFrame

\* worker.py:396-407: the count, or 0 when the call raised, goes into the
\* URL of the launch button
start_launch(t, ok) ==
    /\ t \in Suspended("start", "api_get_drivers")
    /\ Finish(t)
    /\ ev' = [Event("start_launch", t.uid, "launch")
                EXCEPT !.n = IF ok THEN settings ELSE 0]
    /\ UNCHANGED greeted_users
    /\ StartFrame

\* worker.py:379-385: the dispatcher is shown the panel
start_panel(t, ok) ==
    /\ t \in Suspended("start", "panel_get")
    /\ Finish(t)
    /\ ev' = IF ok THEN [Event("start_panel", t.uid, "panel") EXCEPT !.n = settings]
             ELSE Event("start_panel", t.uid, "panel_unknown")
    /\ UNCHANGED greeted_users
    /\ StartFrame

\* bot_polling.py:260-284: a user not yet greeted is sent the welcome text
\* first; a greeted one is sent the launch button at once
polling_start(uid) ==
    /\ shape = "polling"
    /\ IF uid \notin greeted_users
       THEN /\ InFlight < MaxTasks
            /\ greeted_users' = greeted_users \cup {uid}
            /\ Spawn(NewTask("polling_start", uid, "welcome"))
            /\ ev' = Event("start", uid, "welcome")
       ELSE /\ ev' = [Event("start", uid, "launch") EXCEPT !.n = drivers_on_line]
            /\ UNCHANGED <<greeted_users, tasks>>
    /\ StartFrame

\* bot_polling.py:276-284, after the welcome
polling_start_launch(t) ==
    /\ t \in Suspended("polling_start", "welcome")
    /\ Finish(t)
    /\ ev' = [Event("start_launch", t.uid, "launch") EXCEPT !.n = drivers_on_line]
    /\ UNCHANGED greeted_users
    /\ StartFrame

\* ------------------------------------------------ listing of requests
LIST_LIMIT_DEFAULT == 10
LIST_LIMIT_MAX == 50
API_LIMIT_MAX == 100

\* ORDER BY created_at DESC LIMIT n: the row in place p is the one with
\* p - 1 newer rows (rows with equal times are in no defined order for the
\* database; the tables listed here hold distinct times)
OrderByCreatedDescLimit(rows, n) ==
    IF n <= 0 \/ rows = <<>> THEN <<>>
    ELSE LET newer == [i \in DOMAIN rows |->
                         Cardinality({j \in DOMAIN rows :
                            rows[j].created_at > rows[i].created_at})]
         IN [p \in 1..Min(n, Len(rows)) |->
               rows[CHOOSE i \in DOMAIN rows : newer[i] = p - 1]]

\* mutant: ORDER BY created_at (ascending) LIMIT n
db_list_requests_ascending(limit) ==
    SubSeq(requests, 1, Min(Len(requests), Max(1, Min(LIST_LIMIT_MAX, limit))))

\* worker.py:186-202
db_list_requests(limit) ==
    OrderByCreatedDescLimit(requests, Max(1, Min(LIST_LIMIT_MAX, limit)))

IdsOf(items) == [i \in DOMAIN items |-> items[i].id]

\* int(arg) of a command argument or a callback field, or the default
ListLimitArg(arg) ==
    IF Strip(arg) # <<>> /\ IntOk(arg) THEN IntVal(arg) ELSE LIST_LIMIT_DEFAULT

\* worker.py:423-438
requests_cmd(uid, arg) ==
    /\ shape = "worker"
    /\ ev' = IF ~is_dispatcher(uid) THEN Event("requests_cmd", uid, "ignored")
             ELSE LET limit == Max(1, Min(LIST_LIMIT_MAX, ListLimitArg(arg)))
                  IN [Event("requests_cmd", uid, "list")
                        EXCEPT !.text = arg, !.n = ListLimitArg(arg),
                               !.cur = limit,
                               !.items = IdsOf(db_list_requests(limit))]
    /\ UNCHANGED requests
    /\ StoreFrame

\* worker.py:503-517: data "panel:req:<field>"
cb_panel_requests(uid, field) ==
    /\ shape = "worker"
    /\ ev' = IF ~is_dispatcher_user_id(uid)
             THEN Event("cb_panel_requests", uid, "denied")
             ELSE LET limit == IF IntOk(field)
                               THEN Max(1, Min(LIST_LIMIT_MAX, IntVal(field)))
                               ELSE LIST_LIMIT_DEFAULT
                  IN [Event("cb_panel_requests", uid, "list")
                        EXCEPT !.text = field, !.n = ListLimitArg(field),
                               !.cur = limit,
                               !.items = IdsOf(db_list_requests(limit))]
    /\ UNCHANGED requests
    /\ StoreFrame

\* api.py:221-249: limit is validated by Query(ge=1, le=100) before the body
\* runs; an empty status means no filter
admin_list_requests(cred, limit, status) ==
    /\ shape = "worker"
    /\ ev' = IF limit < 1 \/ limit > API_LIMIT_MAX
             THEN [ApiEvent("admin_list_requests", cred, "422")
                     EXCEPT !.n = limit, !.status = status]
             ELSE IF require_admin(cred) # "ok"
             THEN [ApiEvent("admin_list_requests", cred, require_admin(cred))
                     EXCEPT !.n = limit, !.status = status]
             ELSE LET rows == IF status # ""
                              THEN SelectSeq(requests,
                                             LAMBDA r : r.status = status)
                              ELSE requests
                  IN [ApiEvent("admin_list_requests", cred, "ok")
                        EXCEPT !.n = limit, !.status = status, !.cur = limit,
                               !.items = IdsOf(OrderByCreatedDescLimit(rows, limit))]
    /\ UNCHANGED requests
    /\ StoreFrame

\* ------------------------------------------------------ specification
\* the processes right after their start over a database holding `table`
InitState(table, n, data) ==
    /\ shape \in {"worker", "polling"}
    /\ now = 0
    /\ last_request_ts = EmptyDict
    /\ greeted_users = {}
    /\ MANAGER_AWAIT = EmptyDict
    /\ state_file \in (IF shape = "polling" THEN FileContents
                        ELSE {[ok |-> FALSE, v |-> 0]})
    /\ drivers_on_line = load_state(state_file)
    /\ settings = (IF shape = "worker" THEN n ELSE 0)
    /\ requests = (IF shape = "worker" THEN table ELSE <<>>)
    /\ next_id = Len(requests) + 1
    /\ notifications = <<>>
    /\ tasks = EmptyBag
    /\ ev = [Event("init", 0, "") EXCEPT !.data = data]
    /\ add_log = [base |-> settings, deltas |-> <<>>]

InitWith(table, n) == InitState(table, n, NoData)

InitOver(table) == InitWith(table, 0)

Init == InitOver(<<>>)

\* payloads submitted while the clock runs
IntakeRaws == {"object", "array"}

Intake ==
    \/ Advance
    \/ \E uid \in Users, raw \in IntakeRaws : webapp_data_handler(uid, raw)
    \/ \E t \in BagToSet(tasks), ok \in BOOLEAN : db_create_request(t, ok)
    \/ \E t \in BagToSet(tasks), ok \in BOOLEAN : webapp_send_message(t, ok)
    \/ \E t \in BagToSet(tasks) : webapp_commit(t)
    \/ \E uid \in Users, raw \in IntakeRaws : polling_webapp_data_handler(uid, raw)
    \/ \E t \in BagToSet(tasks), ok \in BOOLEAN : polling_send_message(t, ok)
    \/ \E t \in BagToSet(tasks) : polling_webapp_commit(t)

Args == Texts \cup {<<>>}

\* credentials presented to the counter endpoints
PanelCreds ==
    { c \in Creds : c.init.age = 0 /\ (c.init.present => c.token = "none") }

\* The driver counter and the dispatcher panel of both programs.
Panel ==
    \/ get_drivers
    \/ \E cred \in PanelCreds : admin_me(cred)
    \/ \E cred \in PanelCreds, n \in DriverInputs : set_drivers(cred, n)
    \/ \E uid \in Users, ok \in BOOLEAN : panel_cmd(uid, ok)
    \/ \E uid \in Users, ok \in BOOLEAN : cb_panel_home(uid, ok)
    \/ \E uid \in Users, ok \in BOOLEAN : cb_panel_drivers(uid, ok)
    \/ \E uid \in Users, delta \in {1, 0 - 1} : cb_panel_drivers_add(uid, delta)
    \/ \E t \in BagToSet(tasks), ok \in BOOLEAN : drivers_add_get(t, ok)
    \/ \E t \in BagToSet(tasks), ok \in BOOLEAN :
          drivers_add_set(t, ok) /\ UNCHANGED add_log
    \/ \E uid \in Users : cb_panel_drivers_set(uid)
    \/ \E uid \in Users, text \in Texts : manager_number_input(uid, text)
    \/ \E t \in BagToSet(tasks), ok \in BOOLEAN : manager_number_set(t, ok)
    \/ polling_main
    \/ api_drivers
    \/ \E uid \in Users : help_cmd(uid)
    \/ \E uid \in Users : drivers_cmd(uid)
    \/ \E uid \in Users, arg \in Args : setdrivers_cmd(uid, arg)
    \/ \E uid \in Users, arg \in Args : adddrivers_cmd(uid, arg)
    \/ \E uid \in Users, arg \in Args : deldrivers_cmd(uid, arg)
    \/ \E uid \in Users : block_commands_for_non_dispatcher(uid)

\* credentials presented to the request endpoints
StoreCreds ==
    { NoCred, [init |-> NoInit, token |-> "good"],
      [init |-> InitData("bot", 0, 2), token |-> "none"] }

\* The request store: creation by the worker's intake (one submission at a
\* time), status updates and the single-request views.
Store ==
    \/ \E uid \in Users : tasks = EmptyBag /\ webapp_data_handler(uid, "object")
    \/ \E t \in BagToSet(tasks), ok \in BOOLEAN : db_create_request(t, ok)
    \/ \E t \in BagToSet(tasks), ok \in BOOLEAN : webapp_send_message(t, ok)
    \/ \E t \in BagToSet(tasks) : webapp_commit(t)
    \/ \E uid \in Users, arg \in IdArgs : request_cmd(uid, arg)
    \/ \E uid \in Users, args \in SetstatusArgs : setstatus_cmd(uid, args)
    \/ \E uid \in Users, data \in CallbackDatas :
          callback_query_unhandled(uid, data)
    \/ \E cred \in StoreCreds, req_id \in ApiIds : admin_get_request(cred, req_id)
    \/ \E cred \in StoreCreds, req_id \in ApiIds, payload \in ApiStatusInputs :
          admin_set_request_status(cred, req_id, payload)

\* a table left by earlier runs of the worker: the rows of MaxRequests
\* submissions of a customer
StoredTable == [i \in 1..MaxRequests |-> NewRow(i, 2, "object", 0)]

InitStored == InitOver(StoredTable)

AdminTexts == { <<"2">>, <<"1", "a">> }
AdminStatusArgs == { << <<"1">>, "done" >>, << <<"2">>, "cancel" >> }

\* Every entry point that writes the counter or a status, each tried by every
\* user and with every credential.
Admin ==
    \/ \E cred \in PanelCreds, n \in {1, MaxDrivers} : set_drivers(cred, n)
    \/ \E uid \in Users, delta \in {1, 0 - 1} : cb_panel_drivers_add(uid, delta)
    \/ \E t \in BagToSet(tasks), ok \in BOOLEAN : drivers_add_get(t, ok)
    \/ \E t \in BagToSet(tasks), ok \in BOOLEAN :
          drivers_add_set(t, ok) /\ UNCHANGED add_log
    \/ \E uid \in Users : cb_panel_drivers_set(uid)
    \/ \E uid \in Users, text \in AdminTexts : manager_number_input(uid, text)
    \/ \E t \in BagToSet(tasks), ok \in BOOLEAN : manager_number_set(t, ok)
    \/ \E uid \in Users, arg \in AdminTexts : setdrivers_cmd(uid, arg)
    \/ \E uid \in Users, arg \in AdminTexts : adddrivers_cmd(uid, arg)
    \/ \E uid \in Users, arg \in AdminTexts : deldrivers_cmd(uid, arg)
    \/ \E uid \in Users, args \in AdminStatusArgs : setstatus_cmd(uid, args)
    \/ \E cred \in PanelCreds, payload \in {<<"done">>, <<"new">>} :
          admin_set_request_status(cred, 1, payload)

\* every pairing of an init-data header with a token header
GateCreds ==
    [init : {NoInit} \cup
            {InitData(h, a, u) :
                h \in {"bot", "forged"},
                a \in {0, INIT_DATA_MAX_AGE, INIT_DATA_MAX_AGE + 1},
                u \in Users},
     token : {"none", "good", "bad"}]

\* The gated counter endpoints, called with every credential.
Gate ==
    \/ \E cred \in GateCreds : admin_me(cred)
    \/ \E cred \in GateCreds, n \in DriverInputs : set_drivers(cred, n)

\* a table of k rows left by earlier runs, created one tick apart before
\* the start, every second one done
ListTable(k) ==
    [i \in 1..k |->
        [NewRow(i, 2, "object", i - k)
           EXCEPT !.status = IF i % 2 = 0 THEN "done" ELSE "new"]]

\* table sizes below, at and above the listing limits
ListSizes == {0, 3, LIST_LIMIT_MAX + 1, API_LIMIT_MAX + 1}

InitList == (\E k \in ListSizes : InitOver(ListTable(k))) /\ shape = "worker"

ListArgs ==
    { <<>>, <<"2">>, <<"5", "1">>, <<"2", "0", "0">>, <<"0">>, <<"1", "a">> }
ListFields == { <<"2", "0">>, <<"5", "0">>, <<"2", "0", "0">>, <<"1", "a">> }
ApiLimits == {0, 2, LIST_LIMIT_MAX + 1, API_LIMIT_MAX, API_LIMIT_MAX + 1}
StatusFilters == {"", "done", "cancel", "bogus"}
ListCreds == { NoCred, [init |-> NoInit, token |-> "good"] }

\* The listing entry points of the bot and of the API.
List ==
    \/ \E uid \in Users, arg \in ListArgs : requests_cmd(uid, arg)
    \/ \E uid \in Users, field \in ListFields : cb_panel_requests(uid, field)
    \/ \E cred \in ListCreds, limit \in ApiLimits, status \in StatusFilters :
          admin_list_requests(cred, limit, status)

\* /start from every user, the tasks it leaves, and restarts of the polling
\* bot.
Start ==
    \/ \E uid \in Users : start(uid)
    \/ \E t \in BagToSet(tasks) : start_welcome_sent(t)
    \/ \E t \in BagToSet(tasks), ok \in BOOLEAN : start_launch(t, ok)
    \/ \E t \in BagToSet(tasks), ok \in BOOLEAN : start_panel(t, ok)
    \/ \E uid \in Users : polling_start(uid)
    \/ \E t \in BagToSet(tasks) : polling_start_launch(t)
    \/ polling_main

\* The counter and the panel alone.
SpecPanel == Init /\ [][Panel]_vars

\* The request store alone, in the worker with its API.
InitWorker == Init /\ shape = "worker"

SpecStore == InitWorker /\ [][Store]_vars

\* The administrative surface over a stored table.
SpecAdmin == InitStored /\ [][Admin]_vars

\* a suspended /start task of user u is resumed when its call returns
StartStep(u) ==
    \E t \in {x \in BagToSet(tasks) : x.uid = u} :
        \/ start_welcome_sent(t)
        \/ \E ok \in BOOLEAN : start_launch(t, ok)
        \/ \E ok \in BOOLEAN : start_panel(t, ok)
        \/ polling_start_launch(t)

\* /start alone; the event loop resumes every task whose awaited call
\* has returned.
SpecStart ==
    Init /\ [][Start]_vars /\ \A u \in Users : WF_vars(StartStep(u))

\* a database whose counter was left at any value by earlier runs
InitRace == (\E n \in 0..MaxDrivers : InitWith(<<>>, n)) /\ shape = "worker"

\* The +/- buttons pressed by the dispatcher, MaxPresses presses followed
\* from the press to the write: add_log takes the delta of each action
\* whose api_set_drivers call succeeded.
Race ==
    \/ /\ Len(add_log.deltas) + InFlight < MaxPresses
       /\ \E delta \in {1, 0 - 1} : cb_panel_drivers_add(TARGET_USER_ID, delta)
    \/ \E t \in BagToSet(tasks), ok \in BOOLEAN : drivers_add_get(t, ok)
    \/ \E t \in BagToSet(tasks), ok \in BOOLEAN :
          /\ drivers_add_set(t, ok)
          /\ add_log' = IF ok THEN [add_log EXCEPT !.deltas = Append(@, t.delta)]
                        ELSE add_log

SpecRace == InitRace /\ [][Race]_vars

\* geo texts: digits, the separators, a sign, a space and a letter
GeoAlphabet == {"0", "1", ".", ",", "-", " ", "a"}
Geos == UNION {[1..k -> GeoAlphabet] : k \in 0..MaxGeoLen}

\* field values: missing, empty, blank, a word, a padded word
FieldVals == {None, <<>>, <<" ">>, <<"a">>, <<" ", "a", " ">>}

Payloads ==
    [phone : FieldVals, phoneFormatted : FieldVals, carBrand : FieldVals,
     address : FieldVals, geo : FieldVals]
    \cup {[NoData EXCEPT !.geo = g] : g \in Geos}

\* the worker about to receive a submission with the fields ev.data
InitRender ==
    (\E data \in Payloads : InitState(<<>>, 0, data)) /\ shape = "worker"

\* The three views of the request made from the payload.
Render ==
    \/ show_notification(ev.data)
    \/ show_list(ev.data)
    \/ show_details(ev.data)

SpecRender == InitRender /\ [][Render]_vars

Next ==
    Intake \/ Panel \/ Store \/ Admin \/ Gate \/ List \/ Start \/ Race \/ Render

Spec == Init /\ [][Next]_vars

\* The listings over stored tables.
SpecList == InitList /\ [][List]_vars

\* The authorization gate of the API.
SpecGate == InitWorker /\ [][Gate]_vars

\* Order intake alone: submissions, their tasks and the clock.
SpecIntake == Init /\ [][Intake]_vars

\* ================================================================ claims
TsWritten(u) ==
    /\ u \in DOMAIN last_request_ts'
    /\ (u \in DOMAIN last_request_ts => last_request_ts'[u] # last_request_ts[u])

\* C1: the rate-limit timestamp of a user is written only in a step that
\* follows the delivery of that submission's notification to the dispatcher,
\* and a step in which the send fails leaves every timestamp as it was.
C1_CommitAfterNotify ==
    [][/\ ev'.out = "send_failed" => last_request_ts' = last_request_ts
       /\ \A u \in Users :
            TsWritten(u) =>
              \E i \in DOMAIN notifications :
                 /\ notifications[i].uid = u
                 /\ notifications[i].at = last_request_ts'[u]]_vars

C1_Witness ==
    /\ ev.out = "send_failed"
    /\ ev.uid \notin DOMAIN last_request_ts

\* C5: with the last accepted submission of a user at T, a submission handled
\* at T + COOLDOWN - 1 seconds is rejected with a positive remaining time, and
\* one handled at T + COOLDOWN seconds or later is not rejected.
C5_CooldownBoundary ==
    (ev.op = "webapp_data_handler" /\ ev.uid \in DOMAIN last_request_ts) =>
       LET age == now - last_request_ts[ev.uid]
       IN /\ age = (COOLDOWN_SECONDS - 1) * TicksPerSecond =>
               (ev.out = "cooldown" /\ ev.n > 0)
          /\ age >= COOLDOWN_SECONDS * TicksPerSecond => ev.out # "cooldown"

C5_Witness ==
    /\ ev.op = "webapp_data_handler"
    /\ ev.out = "suspended"
    /\ ev.uid \in DOMAIN last_request_ts
    /\ now - last_request_ts[ev.uid] = COOLDOWN_SECONDS * TicksPerSecond

\* C6: a submission handled while its user is inside the cooldown window is
\* rejected, and the rejecting step creates no row, sends no notification,
\* starts no task and leaves every timestamp unchanged.
C6_RejectionHasNoEffect ==
    [][(/\ ev'.op = "webapp_data_handler"
        /\ ev'.uid \in DOMAIN last_request_ts
        /\ now - last_request_ts[ev'.uid] < COOLDOWN_SECONDS * TicksPerSecond)
       => /\ ev'.out = "cooldown"
          /\ UNCHANGED <<last_request_ts, requests, next_id, notifications,
                         tasks, settings, drivers_on_line, state_file,
                         greeted_users, MANAGER_AWAIT>>]_vars

C6_Witness ==
    /\ ev.op = "webapp_data_handler"
    /\ ev.out = "cooldown"
    /\ tasks = EmptyBag
    /\ Len(notifications) = 1
    /\ shape = "worker" => Len(requests) = 1


Awaiting ==
    /\ TARGET_USER_ID \in DOMAIN MANAGER_AWAIT
    /\ MANAGER_AWAIT[TARGET_USER_ID] = "setdrivers"

\* a text that, stripped, is one to six decimal digits
IsCountText(text) ==
    LET s == Strip(text)
    IN /\ Len(s) \in 1..6
       /\ \A i \in DOMAIN s :
            s[i] \in {"0", "1", "2", "3", "4", "5", "6", "7", "8", "9"}

\* C3: both counters are never negative, and a subtraction that starts from 0
\* leaves 0 (the /deldrivers command, and the -1 button that read 0).
C3_DriversNonNegative ==
    /\ [](drivers_on_line >= 0 /\ settings >= 0)
    /\ [][/\ (/\ ev'.op = "deldrivers_cmd" /\ ev'.out = "done"
              /\ ev'.delta > 0 /\ drivers_on_line = 0)
             => (drivers_on_line' = 0 /\ state_file' = [ok |-> TRUE, v |-> 0])
          /\ (/\ ev'.op = "api_set_drivers" /\ ev'.out = "done"
              /\ ev'.delta < 0 /\ ev'.cur = 0)
             => settings' = 0]_vars

C3_Witness ==
    /\ ev.op = "deldrivers_cmd"
    /\ ev.out = "done"
    /\ ev.cur = 0
    /\ ev.delta > 0
    /\ drivers_on_line = 0

\* C7 as stated: the digit string is stored and the dispatcher is idle again
\* whenever the handling of the message ends.
C7_AsStated ==
    [][ev'.op = "manager_number_set" =>
         /\ \E t \in BagToSet(tasks) :
               t.kind = "manager_number_input" /\ settings' = t.n
         /\ ~Awaiting']_vars

\* C7 (amended): the press of "set count" by the dispatcher enters
\* awaiting_driver_count; a text there that is one to six digits is sent to the
\* counter service, and when that write succeeds the number is stored and the
\* dispatcher is idle again, while a failed write leaves mode and count as
\* they were; any other text re-prompts and changes nothing; in idle a text
\* changes nothing.
C7_PanelStateMachine ==
    [][/\ (ev'.op = "cb_panel_drivers_set" /\ ev'.uid = TARGET_USER_ID)
          => (Awaiting' /\ settings' = settings /\ ev'.out = "prompt")
       /\ (ev'.op = "manager_number_input" /\ ev'.uid = TARGET_USER_ID)
          => /\ MANAGER_AWAIT' = MANAGER_AWAIT
             /\ settings' = settings
             /\ IF ~Awaiting
                THEN ev'.out = "ignored" /\ tasks' = tasks
                ELSE IF IsCountText(ev'.text)
                THEN /\ ev'.out = "suspended"
                     /\ \E t \in BagToSet(tasks') :
                           /\ t.kind = "manager_number_input"
                           /\ t.n = ev'.n
                           /\ CopiesIn(t, tasks') = CopiesIn(t, tasks) + 1
                ELSE ev'.out = "need_integer" /\ tasks' = tasks
       /\ ev'.op = "manager_number_set"
          => IF ev'.out = "done"
             THEN /\ \E t \in BagToSet(tasks) :
                        t.kind = "manager_number_input" /\ settings' = t.n
                  /\ ~Awaiting'
             ELSE settings' = settings /\ MANAGER_AWAIT' = MANAGER_AWAIT]_vars

C7_Witness ==
    /\ ev.op = "manager_number_set"
    /\ ev.out = "done"
    /\ settings = 2
    /\ ~Awaiting

\* C8 as stated: in awaiting_driver_count some step other than the
\* consumption of a number returns the dispatcher to idle and leaves the
\* driver count as it is.
C8_CancellationExists ==
    Awaiting =>
       ENABLED (/\ Panel
                /\ ~Awaiting'
                /\ settings' = settings
                /\ ev'.op # "manager_number_set")

C2_StatusAlwaysAllowed ==
    /\ [](\A i \in DOMAIN requests :
             requests[i].status \in {"new", "in_work", "done", "cancel"})
    /\ [][/\ Len(requests') > Len(requests) =>
               requests'[Len(requests')].status = "new"
          /\ (/\ ev'.op = "setstatus_cmd"
              /\ ev'.status \notin {"new", "in_work", "done", "cancel"})
               => /\ requests' = requests
                  /\ ev'.out \in {"ignored", "usage", "bad_id", "bad_status"}
          /\ (/\ ev'.op = "admin_set_request_status"
              /\ ev'.status \notin {"new", "in_work", "done", "cancel"})
               => /\ requests' = requests
                  /\ ev'.out \in {"401", "403", "400"}]_vars

\* the dispatcher's /setstatus with an unknown status word was refused while
\* the addressed row exists and another status update had been applied before
C2_Witness ==
    /\ ev.op = "setstatus_cmd"
    /\ ev.out = "bad_status"
    /\ ev.status = "bogus"
    /\ ev.req_id \in RowIds
    /\ \E i \in DOMAIN requests : requests[i].status = "done"

\* C10 as stated: after the dispatcher presses a "req:<id>:<limit>" button of
\* an existing request the detail view of that request is shown, and after a
\* "st:<id>:<status>:<limit>" button the request carries that status and its
\* detail view is shown.
C10_ButtonsApplyStatus ==
    (/\ ev.op = "callback_query"
     /\ is_dispatcher_user_id(ev.uid)
     /\ ev.req_id \in RowIds)
      => /\ ev.out = "detail"
         /\ ev.text = <<"st">> =>
              \A i \in DOMAIN requests :
                 requests[i].id = ev.req_id => requests[i].status = ev.status

\* the caller of the last step is the dispatcher: the bot user with the
\* configured id, or an API caller presenting the admin token or init data
\* signed by the bot for that id
Authentic(e) ==
    \/ e.src = "bot" /\ e.uid = TARGET_USER_ID
    \/ /\ e.src = "api"
       /\ \/ e.cred.token = "good"
          \/ /\ e.cred.init.present
             /\ e.cred.init.hash = "bot"
             /\ e.cred.init.age <= INIT_DATA_MAX_AGE
             /\ e.cred.init.user = TARGET_USER_ID

\* C4: a step of a command, a button or an API endpoint whose caller is not
\* the dispatcher and holds no admin token leaves the driver count (in the
\* settings table, in the polling bot's memory and in its state file) and
\* every request row unchanged; so the count and the statuses change only in
\* the dispatcher's steps.
C4_OnlyDispatcherMutates ==
    [][~Authentic(ev') =>
          UNCHANGED <<settings, drivers_on_line, state_file, requests>>]_vars

\* a caller with valid init data of another user was refused by the counter
\* endpoint after the dispatcher had changed both the count and a status
C4_Witness ==
    /\ ev.op = "set_drivers"
    /\ ev.out = "403"
    /\ ~Authentic(ev)
    /\ settings > 0
    /\ \E i \in DOMAIN requests : requests[i].status = "done"

\* the presented token is the configured admin token
TokenPathOk(cred) == cred.token = "good"

\* the presented init data is signed by the bot, not older than 24 hours and
\* names the target id
InitPathOk(cred) ==
    /\ cred.init.present
    /\ cred.init.hash = "bot"
    /\ cred.init.age <= 86400
    /\ cred.init.user = TARGET_USER_ID

\* C11 as stated: a gated request whose token or whose init data would be
\* admitted on its own is not answered with an authorization error, whatever
\* the other header holds.
C11_AnyPathAdmits ==
    (/\ ev.op \in {"admin_me", "set_drivers"}
     /\ (TokenPathOk(ev.cred) \/ InitPathOk(ev.cred)))
      => ev.out \notin {"401", "403"}

\* C12: a gated request carrying init data is answered 401 when the signature
\* is not the bot's, whatever age and user it names; 401 when the signature is
\* right and the data is more than 86400 seconds old; 403 when signature and
\* age are right and the user is not the target id; and in none of these cases
\* is the counter written.
C12_InitDataChecks ==
    [][(/\ ev'.op \in {"admin_me", "set_drivers"}
        /\ ev'.cred.init.present)
         => /\ ev'.cred.init.hash # "bot" => ev'.out = "401"
            /\ (ev'.cred.init.hash = "bot" /\ ev'.cred.init.age > 86400)
                 => ev'.out = "401"
            /\ (/\ ev'.cred.init.hash = "bot"
                /\ ev'.cred.init.age <= 86400
                /\ ev'.cred.init.user # TARGET_USER_ID)
                 => ev'.out = "403"
            /\ ev'.out \in {"401", "403"} => settings' = settings]_vars

\* init data signed by the bot for the target id, one second too old, was
\* refused by the counter endpoint after an admitted write
C12_Witness ==
    /\ ev.op = "set_drivers"
    /\ ev.cred.init.present
    /\ ev.cred.init.hash = "bot"
    /\ ev.cred.init.user = TARGET_USER_ID
    /\ ev.cred.init.age = 86401
    /\ ev.out = "401"
    /\ settings > 0

\* the message the last step of an intake handler sent to the submitter:
\* the cooldown text (worker.py:605-608, bot_polling.py:301-304), the
\* acknowledgment (worker.py:649-652, bot_polling.py:345), or none: an
\* exception raised by db_create_request or send_message leaves the handler
\* without a reply
Reply(e) ==
    IF e.out = "cooldown" THEN "remaining_time"
    ELSE IF e.out = "ack" THEN "acknowledgment"
    ELSE "none"

\* C13 as stated: a submission whose persistence or whose delivery to the
\* dispatcher failed has been answered with a failure message to the
\* submitter.
C13_FailureIsReported ==
    (/\ ev.op \in {"db_create_request", "send_message"}
     /\ ev.out \in {"store_failed", "send_failed"})
      => Reply(ev) = "failure_message"

\* C14 as stated: after a set of the counter by the dispatcher with an
\* integer n (POST /api/admin/drivers, /setdrivers n) the counter is
\* max(0, n).
C14_AsStated ==
    /\ (ev.op = "set_drivers" /\ ev.out = "ok") => settings = Max(0, ev.n)
    /\ (/\ ev.op = "setdrivers_cmd"
        /\ ev.uid = TARGET_USER_ID
        /\ IntOk(ev.text))
         => drivers_on_line = Max(0, IntVal(ev.text))

\* C14 amended: an admitted POST /api/admin/drivers with n stores max(0, n)
\* and returns the stored value; the dispatcher's /setdrivers n stores n,
\* writes it to the state file and reports it when n >= 0, and when n is
\* negative answers that a non-negative integer is needed and leaves the
\* counter and the state file unchanged.
C14_SetClampsOrRejects ==
    [][/\ (ev'.op = "set_drivers" /\ ev'.out = "ok")
            => /\ settings' = (IF ev'.n < 0 THEN 0 ELSE ev'.n)
               /\ ev'.cur = settings'
       /\ (/\ ev'.op = "setdrivers_cmd"
           /\ ev'.uid = TARGET_USER_ID
           /\ IntOk(ev'.text))
            => IF IntVal(ev'.text) >= 0
               THEN /\ drivers_on_line' = IntVal(ev'.text)
                    /\ state_file' = [ok |-> TRUE, v |-> IntVal(ev'.text)]
                    /\ ev'.out = "done"
                    /\ ev'.n = drivers_on_line'
               ELSE /\ UNCHANGED <<drivers_on_line, state_file>>
                    /\ ev'.out = "need_nonneg"]_vars

\* the dispatcher's /setdrivers -1 was refused while the counter is positive
C14_Witness ==
    /\ ev.op = "setdrivers_cmd"
    /\ ev.uid = TARGET_USER_ID
    /\ IntOk(ev.text)
    /\ IntVal(ev.text) < 0
    /\ ev.out = "need_nonneg"
    /\ drivers_on_line > 0

\* C15: a status update by the dispatcher that names an existing request and
\* the allowed status the request already has is reported as a success and
\* leaves the table as it was, so a second application of an update changes
\* nothing the first did not.
C15_StatusUpdateIdempotent ==
    [][\A i \in DOMAIN requests :
          (/\ ev'.op \in {"setstatus_cmd", "admin_set_request_status"}
           /\ ev'.out \notin {"ignored", "401", "403"}
           /\ ev'.req_id = requests[i].id
           /\ ev'.status = requests[i].status
           /\ ev'.status \in {"new", "in_work", "done", "cancel"})
            => /\ ev'.out \in {"done", "ok"}
               /\ requests' = requests]_vars

\* /setstatus 1 done was applied to a request that was already done
C15_Witness ==
    /\ ev.op = "setstatus_cmd"
    /\ ev.out = "done"
    /\ ev.req_id \in RowIds
    /\ ev.status = "done"
    /\ ev.was = "done"
    /\ StatusOf(ev.req_id) = "done"

\* C16: a status update or a single-request read that passes the caller and
\* argument checks and names an id no row has is reported as not found and
\* leaves the table unchanged; no status update changes the number of rows.
C16_UnknownIdNotFound ==
    [][/\ (/\ ev'.op \in {"setstatus_cmd", "admin_set_request_status",
                          "request_cmd", "admin_get_request"}
           /\ ev'.out \notin {"ignored", "usage", "bad_id", "bad_status",
                              "401", "403", "400"}
           /\ ev'.req_id \notin RowIds)
            => /\ ev'.out \in {"not_found", "404"}
               /\ requests' = requests
       /\ ev'.op \in {"setstatus_cmd", "admin_set_request_status"}
            => /\ Len(requests') = Len(requests)
               /\ \A i \in DOMAIN requests : requests'[i].id = requests[i].id]_vars

\* the API status endpoint answered 404 for id 9 while other rows exist
C16_Witness ==
    /\ ev.op = "admin_set_request_status"
    /\ ev.out = "404"
    /\ ev.req_id \notin RowIds
    /\ ev.status \in {"new", "in_work", "done", "cancel"}
    /\ requests # <<>>

\* C17 as stated: no listing by /requests, by a panel list button or by
\* GET /api/admin/requests returns more than 50 items.
C17_ListAtMostFifty ==
    ev.op \in {"requests_cmd", "cb_panel_requests", "admin_list_requests"}
      => Len(ev.items) <= 50

\* the stored row with the given id
RowOf(id) == CHOOSE r \in {requests[i] : i \in DOMAIN requests} : r.id = id

\* the rows a listing selects from: all of them, or for the API with a
\* non-empty status filter those with that status
Matching(e) ==
    {i \in DOMAIN requests :
        \/ e.op # "admin_list_requests"
        \/ e.status = ""
        \/ requests[i].status = e.status}

\* C18: a listing that is answered returns, newest first, the most recently
\* created matching requests, as many as the limit it applies (the requested
\* limit when that is between 1 and 50) or all of them when there are fewer;
\* an admitted API listing whose status filter matches no request, allowed
\* status or not, is answered with an empty list and not with an error.
C18_NewestFirst ==
    /\ (/\ ev.op \in {"requests_cmd", "cb_panel_requests", "admin_list_requests"}
        /\ ev.out \in {"list", "ok"})
         => /\ ev.cur >= 1
            /\ ev.n \in 1..50 => ev.cur = ev.n
            /\ Len(ev.items) =
                 (IF ev.cur <= Cardinality(Matching(ev))
                  THEN ev.cur ELSE Cardinality(Matching(ev)))
            /\ \A p \in 1..(Len(ev.items) - 1) :
                  RowOf(ev.items[p]).created_at > RowOf(ev.items[p + 1]).created_at
            /\ \A p \in DOMAIN ev.items :
                  \E i \in Matching(ev) : requests[i].id = ev.items[p]
            /\ \A i \in Matching(ev) :
                  (\A p \in DOMAIN ev.items : ev.items[p] # requests[i].id)
                    => \A p \in DOMAIN ev.items :
                          RowOf(ev.items[p]).created_at > requests[i].created_at
    /\ (/\ ev.op = "admin_list_requests"
        /\ ev.cred.token = "good"
        /\ ~ev.cred.init.present
        /\ ev.n \in 1..100
        /\ Matching(ev) = {})
         => ev.out = "ok" /\ ev.items = <<>>

\* /requests 2 over a table of 51 rows returned the two newest, newest first
C18_Witness ==
    /\ ev.op = "requests_cmd"
    /\ ev.out = "list"
    /\ Len(requests) = 51
    /\ ev.n = 2
    /\ ev.items = <<requests[51].id, requests[50].id>>

\* C19: the ids of the stored requests are pairwise different and increase
\* in creation order; a step keeps the id and created_at of every row it
\* finds, and a row it adds gets an id greater than every id present.
C19_IdsUniqueIncreasing ==
    /\ [](\A i, j \in DOMAIN requests :
             i < j => requests[i].id < requests[j].id)
    /\ [][/\ \A i \in DOMAIN requests :
                /\ i \in DOMAIN requests'
                /\ requests'[i].id = requests[i].id
                /\ requests'[i].created_at = requests[i].created_at
          /\ \A j \in DOMAIN requests' \ DOMAIN requests :
                \A i \in DOMAIN requests : requests'[j].id > requests[i].id]_vars

\* two requests were created and the status of the first was then changed
C19_Witness ==
    /\ Len(requests) = 2
    /\ requests[1].id # requests[2].id
    /\ ev.op = "setstatus_cmd"
    /\ ev.out = "done"
    /\ ev.req_id = requests[1].id
    /\ ev.was = "new"

\* C20: within one process lifetime the welcome text goes to a user only
\* when that user is not yet in greeted_users, the same step puts the user
\* there and nothing but a restart of the process takes a user out again, so
\* no user is welcomed twice; and every /start of a user (in the worker: of
\* a user who is not the dispatcher) sends the launch control at once or
\* leaves a task of that user, and such a task leads to the launch control
\* for that user (or to the end of the process).
StartKinds == {"start", "polling_start"}
StartTaskOf(u) ==
    \E t \in BagToSet(tasks) : t.uid = u /\ t.kind \in StartKinds
PanelUser(u) == shape = "worker" /\ is_dispatcher(u)
C21_AddIsReadThenWrite ==
    /\ settings >= 0
    /\ (ev.op = "api_set_drivers" /\ ev.out = "done")
          => settings = Max(0, ev.cur + ev.delta)
    /\ add_log.deltas = <<1, 1>>
          => settings \in {add_log.base + 1, add_log.base + 2}
    /\ add_log.deltas = <<0 - 1, 0 - 1>>
          => settings \in {Max(0, add_log.base - 1), Max(0, add_log.base - 2)}
\* the lost update: two +1 actions have written and the counter is n+1
C21_Witness ==
    /\ add_log.deltas = <<1, 1>>
    /\ settings = add_log.base + 1
    /\ tasks = EmptyBag

\* C22: whatever the interleaving of submissions, the rows have distinct
\* ids and status new, the notifications of the worker name distinct rows
\* and each names a row of its own submitter, a recorded last_request_ts[u]
\* is the handling time of a notified submission of u, and a step changes
\* last_request_ts for no user but the one it serves and alters no
\* existing row.
C22_DuplicateIsTheOnlyCost ==
    /\ [](/\ \A i, j \in DOMAIN requests :
               /\ requests[i].status = "new"
               /\ i # j => requests[i].id # requests[j].id
          /\ \A i, j \in DOMAIN notifications :
               /\ shape = "worker" =>
                     \E k \in DOMAIN requests :
                        /\ requests[k].id = notifications[i].req_id
                        /\ requests[k].tg_user_id = notifications[i].uid
               /\ (shape = "worker" /\ i # j) =>
                     notifications[i].req_id # notifications[j].req_id
          /\ \A u \in DOMAIN last_request_ts :
               \E i \in DOMAIN notifications :
                  /\ notifications[i].uid = u
                  /\ notifications[i].at = last_request_ts[u])
    /\ [][/\ \A u \in Users :
               u # ev'.uid =>
                  /\ (u \in DOMAIN last_request_ts') = (u \in DOMAIN last_request_ts)
                  /\ u \in DOMAIN last_request_ts =>
                        last_request_ts'[u] = last_request_ts[u]
          /\ Len(requests') >= Len(requests)
          /\ SubSeq(requests', 1, Len(requests)) = requests]_vars
\* two submissions of one user, handled less than COOLDOWN_SECONDS apart,
\* were both stored, notified and acknowledged
C22_Witness ==
    /\ shape = "worker"
    /\ tasks = EmptyBag
    /\ Len(requests) = 2 /\ Len(notifications) = 2
    /\ notifications[1].uid = notifications[2].uid
    /\ notifications[2].at - notifications[1].at < CooldownTicks
    /\ notifications[1].at - notifications[2].at < CooldownTicks
    /\ notifications[1].uid \in DOMAIN last_request_ts
    /\ ev.out = "ack"

\* C23: both shapes take the same texts as a new count and store the same
\* value for them, and +1 / -1 with nothing written in between gives the
\* same new value in both; the value shown is the value stored.
\* bot_polling.py:187-198: the argument of /setdrivers is accepted
LocalAccepts(text) ==
    /\ Strip(text) # <<>>
    /\ IntOk(text)
    /\ IntVal(text) >= 0
C23_ShapesAgree ==
    [][/\ (ev'.op = "setdrivers_cmd" /\ is_dispatcher(ev'.uid) /\ ev'.text # <<>>)
            => /\ (ev'.out = "done") = LocalAccepts(ev'.text)
               /\ ev'.out = "done" =>
                     /\ drivers_on_line' = IntVal(ev'.text)
                     /\ ev'.n = drivers_on_line'
       /\ (ev'.op = "manager_number_input" /\ ev'.out \in {"suspended", "need_integer"})
            => /\ (ev'.out = "suspended") = LocalAccepts(ev'.text)
               /\ ev'.out = "suspended" => ev'.n = IntVal(ev'.text)
       /\ (ev'.op = "manager_number_set" /\ ev'.out = "done")
            => (settings' = ev'.n /\ ev'.n >= 0)
       /\ (ev'.op \in {"adddrivers_cmd", "deldrivers_cmd"} /\ ev'.out = "done"
             /\ ev'.delta = 1)
            => /\ drivers_on_line' =
                     Max(0, drivers_on_line
                             + (IF ev'.op = "adddrivers_cmd" THEN 1 ELSE 0 - 1))
               /\ ev'.n = drivers_on_line'
       /\ (ev'.op = "api_set_drivers" /\ ev'.out = "done" /\ ev'.cur = settings)
            => /\ settings' = Max(0, settings + ev'.delta)
               /\ ev'.n = settings'
       /\ (ev'.op = "drivers_cmd" /\ ev'.out = "drivers") => ev'.n = drivers_on_line
       /\ (ev'.op = "cb_panel_drivers" /\ ev'.out = "drivers") => ev'.n = settings
      ]_vars

\* C24: a view has a map line exactly when the geo text, spaces removed,
\* has one comma with a number on each side; the link of that line then
\* names the longitude first and the latitude second, each read back from
\* the link as the number the text gave; every other geo value gives a
\* view without a map line.
TwoNumbers(g) ==
    /\ g # None
    /\ LET t == RemoveSpaces(g)
           commas == {i \in DOMAIN t : t[i] = ","}
       IN /\ Cardinality(commas) = 1
          /\ \A k \in commas :
                /\ FloatOk(SubSeq(t, 1, k - 1))
                /\ FloatOk(SubSeq(t, k + 1, Len(t)))
MapLines(items) == {i \in DOMAIN items : items[i].label = "maps"}
Views == {"notification", "list", "details"}
C24_MapLinkIffLatLon ==
    ev.op \in Views =>
       /\ (MapLines(ev.items) # {}) = TwoNumbers(ev.data.geo)
       /\ Cardinality(MapLines(ev.items)) <= 1
       /\ \A i \in MapLines(ev.items) :
             LET t == RemoveSpaces(ev.data.geo)
                 k == FirstComma(t)
                 pt == Tail(ev.items[i].value)
                 c == FirstComma(pt)
             IN /\ Head(ev.items[i].value) = "pt="
                /\ FloatOk(SubSeq(pt, 1, c - 1))
                /\ FloatOk(SubSeq(pt, c + 1, Len(pt)))
                /\ FloatVal(SubSeq(pt, 1, c - 1)) = FloatVal(SubSeq(t, k + 1, Len(t)))
                /\ FloatVal(SubSeq(pt, c + 1, Len(pt))) = FloatVal(SubSeq(t, 1, k - 1))
\* a notification for a geo text with a space and two different numbers
C24_Witness ==
    /\ ev.op = "notification"
    /\ TwoNumbers(ev.data.geo)
    /\ \E i \in DOMAIN ev.data.geo : ev.data.geo[i] = " "
    /\ \E i \in MapLines(ev.items) :
          LET pt == Tail(ev.items[i].value)
              c == FirstComma(pt)
          IN FloatVal(SubSeq(pt, 1, c - 1)) # FloatVal(SubSeq(pt, c + 1, Len(pt)))

\* C25: in every view the line of a field whose payload value is missing,
\* empty or only spaces shows the em-dash, and no field line shows a value
\* that is None, empty or only spaces.
Blank(v) == v = None \/ Strip(v) = <<>>
BlankInput(data, label) ==
    CASE label = "phone" -> Blank(data.phoneFormatted) /\ Blank(data.phone)
      [] label = "car_brand" -> Blank(data.carBrand)
      [] label = "address" -> Blank(data.address)
      [] label = "geo" -> Blank(data.geo)
C25_BlankShowsDash ==
    ev.op \in Views =>
       \A i \in DOMAIN ev.items \ MapLines(ev.items) :
          /\ ~Blank(ev.items[i].value)
          /\ BlankInput(ev.data, ev.items[i].label) => ev.items[i].value = Dash

\* C26: a submission that passes the rate-limit check goes on to the store
\* (in the polling bot: to the notification) whatever its payload is: the
\* handler never ends on the payload itself.
C26_NoPayloadFailure ==
    ev.op = "webapp_data_handler" => ev.out \in {"cooldown", "suspended"}

\* C27: the step in which the store or the notification fails ends the
\* handler and writes neither last_request_ts nor a notification (nor, for
\* the store, a row); so nothing that depends on the failed step happens.
C27_FailureCommitsNothing ==
    [][ev'.out \in {"store_failed", "send_failed"} =>
          /\ last_request_ts' = last_request_ts
          /\ notifications' = notifications
          /\ \E t \in BagToSet(tasks) :
                t.uid = ev'.uid /\ tasks' = tasks (-) SetToBag({t})
          /\ ev'.out = "store_failed" => requests' = requests]_vars
\* the notification of a stored request failed: the row is there, the
\* submitter's timestamp is not
C27_Witness ==
    /\ ev.out = "send_failed"
    /\ \E i \in DOMAIN requests : requests[i].id = ev.req_id
    /\ \A i \in DOMAIN notifications : notifications[i].req_id # ev.req_id
    /\ ev.uid \notin DOMAIN last_request_ts

\* C28: the API status update answers 401 or 403 to a caller the gate does
\* not admit, whatever the id and the status; 400 to an admitted caller whose
\* stripped status is not one of the four, whether or not the id exists; 404
\* to an admitted caller with an allowed status and an id no row has; and ok
\* otherwise.  The table changes in the last case only.
C28_AuthThenStatusThenExistence ==
    [][ev'.op = "admin_set_request_status" =>
          LET admitted == require_admin(ev'.cred) = "ok"
              allowed == \E w \in ALLOWED_STATUSES : Strip(ev'.text) = <<w>>
              exists == ev'.req_id \in RowIds
          IN /\ ev'.out = (IF ~admitted THEN require_admin(ev'.cred)
                           ELSE IF ~allowed THEN "400"
                           ELSE IF ~exists THEN "404" ELSE "ok")
             /\ require_admin(ev'.cred) \in {"ok", "401", "403"}
             /\ ev'.out # "ok" => requests' = requests]_vars
\* an admitted caller sent a status outside the four for an id no row has:
\* 400, not 404
C28_Witness ==
    /\ ev.op = "admin_set_request_status"
    /\ require_admin(ev.cred) = "ok"
    /\ ev.req_id \notin RowIds
    /\ requests # <<>>
    /\ ev.out = "400"

\* C29: a status update by the command or by the API leaves every row in
\* its place with every column but status as it was, changes the status of
\* no row but the one it names, and leaves the counter of either shape and
\* the per-user maps as they were.
C29_StatusUpdateFrame ==
    [][ev'.op \in {"setstatus_cmd", "admin_set_request_status"} =>
          /\ Len(requests') = Len(requests)
          /\ \A i \in DOMAIN requests :
                /\ requests'[i] = [requests[i] EXCEPT !.status = requests'[i].status]
                /\ requests'[i].status # requests[i].status
                      => /\ requests[i].id = ev'.req_id
                         /\ requests'[i].status = ev'.status
          /\ UNCHANGED <<settings, drivers_on_line, state_file, last_request_ts,
                         greeted_users, MANAGER_AWAIT, next_id, notifications>>]_vars
\* one of two rows was given a new status; the other row kept its own
C29_Witness ==
    /\ ev.op \in {"setstatus_cmd", "admin_set_request_status"}
    /\ ev.out \in {"ok", "done"}
    /\ ev.was # ev.status
    /\ Len(requests) = 2
    /\ \E i, j \in DOMAIN requests :
          /\ requests[i].id = ev.req_id
          /\ requests[i].status = ev.status
          /\ requests[j].status # ev.status

\* C30: in the worker a notification is delivered only for an id whose row
\* is in the table at that moment, no id is notified twice, and the
\* acknowledgment of a submission is sent only when the notification of its
\* row has been delivered.
Notified(req_id) ==
    \E i \in DOMAIN notifications : notifications[i].req_id = req_id
C30_NotifyAfterCreateAckAfterNotify ==
    [][shape = "worker" =>
          /\ (ev'.op = "send_message" /\ ev'.out = "delivered")
                => /\ ev'.req_id \in RowIds
                   /\ ~Notified(ev'.req_id)
                   /\ notifications' = Append(notifications,
                          [req_id |-> ev'.req_id, uid |-> ev'.uid,
                           at |-> notifications'[Len(notifications')].at])
          /\ (ev'.op # "send_message" \/ ev'.out # "delivered")
                => notifications' = notifications
          /\ ev'.out = "ack" => Notified(ev'.req_id)]_vars
\* a submission was stored, notified and acknowledged, in that order
C30_Witness ==
    /\ shape = "worker"
    /\ ev.out = "ack"
    /\ ev.req_id \in RowIds
    /\ Notified(ev.req_id)
    /\ Len(notifications) = Len(requests)

\* C31: the remaining time a rejected submission is told, in seconds, is at
\* least 1 and at most COOLDOWN_SECONDS.
C31_RemainAtLeastOneSecond ==
    (ev.op = "webapp_data_handler" /\ ev.out = "cooldown")
       => (ev.n >= 1 /\ ev.n <= COOLDOWN_SECONDS)

\* C32: in the polling bot a completed /setdrivers, /adddrivers or
\* /deldrivers is one step: it computes the new counter from the counter as
\* it is at that step (so the commands take effect one after another, in
\* the order of these steps, and none is lost), leaves no suspended task
\* behind, and writes the new counter to the state file.
C32_LocalUpdatesAtomic ==
    [][(/\ ev'.op \in {"setdrivers_cmd", "adddrivers_cmd", "deldrivers_cmd"}
        /\ ev'.out = "done")
          => /\ drivers_on_line' =
                   (CASE ev'.op = "setdrivers_cmd" -> IntVal(ev'.text)
                      [] ev'.op = "adddrivers_cmd" ->
                            drivers_on_line + IntVal(ev'.text)
                      [] ev'.op = "deldrivers_cmd" ->
                            Max(0, drivers_on_line - IntVal(ev'.text)))
             /\ ev'.n = drivers_on_line'
             /\ tasks' = tasks
             /\ state_file' = [ok |-> TRUE, v |-> drivers_on_line']
             /\ load_state(state_file') = drivers_on_line']_vars
\* an /adddrivers applied on top of an earlier update, mirrored to the file
C32_Witness ==
    /\ shape = "polling"
    /\ ev.op = "adddrivers_cmd" /\ ev.out = "done"
    /\ ev.delta = 1
    /\ drivers_on_line = 2
    /\ state_file = [ok |-> TRUE, v |-> 2]

====
